---- MODULE Spec2Model ----
(***************************************************************************)
(* A model of the negotiation core of equi-exchange: the concession        *)
(* strategies (BaseAgent, TheoryOfMindAgent, UnifiedNegotiationAgent),     *)
(* the utility / fairness calculator, and the two negotiation loops        *)
(* (run_negotiation_loop, run_tom_negotiation_loop).                       *)
(*                                                                         *)
(* Numbers.  The program computes with Python floats.  The model computes  *)
(* with fixed-point integers: a price, a utility, a fairness or a weight x *)
(* is the integer x * Scale, and every product or quotient is rounded to   *)
(* the nearest unit (Python rounds each float operation to the nearest     *)
(* double).  Comparisons against program thresholds are made on the exact  *)
(* integers, cross-multiplied where the threshold is a fraction.           *)
(***************************************************************************)
EXTENDS Integers, Sequences, FiniteSets, TLC

\* Fixed-point resolution: units per 1.0.
Scale == 1000

\* Two fixed-point values are equal up to the rounding of the fixed-point
\* arithmetic when they differ by at most Eps units.
Eps == 3

-----------------------------------------------------------------------------
(* Arithmetic helpers *)

Abs(x) == IF x < 0 THEN -x ELSE x

Max2(a, b) == IF a >= b THEN a ELSE b

Min2(a, b) == IF a <= b THEN a ELSE b

\* n / d rounded to the nearest integer (d > 0), halves rounded up.
RoundDiv(n, d) == IF 2 * (n % d) >= d THEN (n \div d) + 1 ELSE n \div d

\* The fixed-point value of the decimal n / d.
Frac(n, d) == RoundDiv(n * Scale, d)

\* The fixed-point value of the whole number n.
P(n) == n * Scale

\* Fixed-point product of two fixed-point values.
Mul(a, b) == RoundDiv(a * b, Scale)

Close(a, b) == Abs(a - b) <= Eps

\* Python's None / Optional[float]: <<>> is None, <<x>> is the float x.
None == <<>>

Some(x) == <<x>>

IsNone(o) == o = <<>>

Val(o) == o[1]

\* Truthiness of an Optional[float] (`if self.market_price:`): None and 0.0
\* are both false.
Truthy(o) == o # <<>> /\ o[1] # 0

Last(s) == s[Len(s)]

RECURSIVE SumSeq(_)
SumSeq(s) == IF s = <<>> THEN 0 ELSE s[1] + SumSeq(Tail(s))

-----------------------------------------------------------------------------
(* BaseAgent: a party's configuration and the base concession strategy. *)

\* BaseAgent.__init__: the fields are stored as given; nothing is validated.
\* agent_type is "buyer" when target < (min + max) / 2.
BaseAgent(target, min, max, qty, fw, agg, market) ==
    [ target_price    |-> target,
      min_price       |-> min,
      max_price       |-> max,
      quantity        |-> qty,
      fairness_weight |-> fw,
      aggressiveness  |-> agg,
      market_price    |-> market,
      agent_type      |-> IF 2 * target < min + max THEN "buyer" ELSE "seller" ]

\* max(self.min_price, min(self.max_price, proposed))
Clamp(a, proposed) == Max2(a.min_price, Min2(a.max_price, proposed))

\* A concession factor that starts from 1.5 instead of 0.5: the proposer
\* moves past the offer it answers.
ConcessionFactorOvershoot(a, last) ==
    LET base == Frac(3, 2) + RoundDiv((Scale - a.aggressiveness) * 3, 10)
        shrink ==
            /\ Truthy(a.market_price)
            /\ IF a.agent_type = "buyer"
               THEN Val(a.market_price) < last
               ELSE Val(a.market_price) > last
    IN  IF shrink THEN RoundDiv(base * 9, 10) ELSE base

\* 0.5 + (1 - aggressiveness) * 0.3, then * 0.9 when the market price says the
\* opponent's offer is already on the favourable side.
ConcessionFactor(a, last) ==
    LET base == Frac(1, 2) + RoundDiv((Scale - a.aggressiveness) * 3, 10)
        shrink ==
            /\ Truthy(a.market_price)
            /\ IF a.agent_type = "buyer"
               THEN Val(a.market_price) < last
               ELSE Val(a.market_price) > last
    IN  IF shrink THEN RoundDiv(base * 9, 10) ELSE base

\* BaseAgent.propose(last_offer_price); last is an Optional[float].
BasePropose(a, last) ==
    IF IsNone(last)
    THEN IF Truthy(a.market_price)
         THEN LET m == Val(a.market_price)
                  t == a.target_price
                  k == (Scale - a.aggressiveness) * 3
                  proposed ==
                      IF a.agent_type = "buyer"
                      THEN t - RoundDiv((t - m) * k, 10 * Scale)
                      ELSE t + RoundDiv((m - t) * k, 10 * Scale)
              IN  Clamp(a, proposed)
         ELSE a.target_price
    ELSE LET delta == Val(last) - a.target_price
         IN  Clamp(a, a.target_price + Mul(delta, ConcessionFactor(a, Val(last))))

\* A utility that forgets the absolute value of the distance to the target.
UtilityNoAbs(a, price) ==
    Scale - RoundDiv((price - a.target_price) * Scale,
                     Max2(Scale, Abs(a.max_price - a.min_price)))

\* BaseAgent.utility: 1 - |price - target| / max(1.0, |max - min|).
Utility(a, price) ==
    Scale - RoundDiv(Abs(price - a.target_price) * Scale,
                     Max2(Scale, Abs(a.max_price - a.min_price)))

\* simple_fairness = 1.0 - abs(buyer_util - seller_util)
SimpleFairness(bu, su) == Scale - Abs(bu - su)

\* The configuration the design calls valid.
ValidParty(a) ==
    /\ a.min_price <= a.max_price
    /\ a.min_price <= a.target_price
    /\ a.target_price <= a.max_price
    /\ a.quantity > 0

-----------------------------------------------------------------------------
(* TheoryOfMindAgent: the opponent-modeling strategy. *)

\* TheoryOfMindAgent.__init__ passes address, target, min, max, quantity and
\* fairness_weight to BaseAgent.__init__; aggressiveness and market_price
\* take BaseAgent's defaults (0.5, None).
TomConfig(target, min, max, qty, fw) ==
    BaseAgent(target, min, max, qty, fw, Frac(1, 2), None)

\* self.opponent_model, the two histories and round_count after __init__.
TomInit ==
    [ target_price_estimate    |-> None,
      concession_rate_estimate |-> Frac(5, 100),
      patience_level           |-> Frac(1, 2),
      strategy_type            |-> "None",
      belief_confidence        |-> 0,
      opponent_offer_history   |-> <<>>,
      my_offer_history         |-> <<>>,
      round_count              |-> 0 ]

\* coeffs[1] of np.polyfit(arange(k), offers, 1): the intercept of the
\* least-squares line through (0, offers[1]) .. (k-1, offers[k]), which is
\* sum_i offers[i+1] * 2 * (2k - 1 - 3i) / (k * (k + 1)).
FitIntercept(offers) ==
    LET k == Len(offers)
    IN  RoundDiv(2 * SumSeq([i \in 1..k |-> (2 * k - 1 - 3 * (i - 1)) * offers[i]]),
                 k * (k + 1))

\* The last five entries of a history (history[-5:]).
LastFive(h) == SubSeq(h, Max2(1, Len(h) - 4), Len(h))

\* TheoryOfMindAgent.update_opponent_model(opponent_offer, my_last_offer)
TomUpdate(a, st, offer, my_last) ==
    LET oh == Append(st.opponent_offer_history, offer)
        mh == IF IsNone(my_last) THEN st.my_offer_history
              ELSE Append(st.my_offer_history, Val(my_last))
        rc == st.round_count + 1
        n  == Len(oh)
        sumc == SumSeq([i \in 1..(n - 1) |-> Abs(oh[i] - oh[i + 1])])
        \* avg_concession > 0.1 / < 0.02, with avg = sumc / (n - 1)
        strategy ==
            IF n < 2 THEN st.strategy_type
            ELSE IF sumc * 10 > (n - 1) * Scale THEN "cooperative"
            ELSE IF sumc * 50 < (n - 1) * Scale THEN "stubborn"
            ELSE "moderate"
        cre == IF n < 2 THEN st.concession_rate_estimate
               ELSE RoundDiv(sumc, n - 1)
        offers == LastFive(oh)
        estimated_target == FitIntercept(offers)
        confidence == Min2(Scale, Frac(Len(offers), 10))
        tpe == IF n < 3 THEN st.target_price_estimate
               ELSE IF IsNone(st.target_price_estimate)
               THEN Some(estimated_target)
               ELSE Some(Mul(confidence, estimated_target)
                         + Mul(Scale - confidence, Val(st.target_price_estimate)))
        conf == IF n < 3 THEN st.belief_confidence ELSE confidence
        total_movement == Abs(oh[1] - oh[n])
        range == a.max_price - a.min_price
        \* expected_movement = round_count * 0.05 * range; the tests are
        \* movement < 0.5 * expected and movement > 1.5 * expected.
        patience ==
            IF n < 2 THEN st.patience_level
            ELSE IF total_movement * 40 < rc * range THEN Frac(8, 10)
            ELSE IF total_movement * 40 > 3 * rc * range THEN Frac(2, 10)
            ELSE st.patience_level
    IN  [ target_price_estimate    |-> tpe,
          concession_rate_estimate |-> cre,
          patience_level           |-> patience,
          strategy_type            |-> strategy,
          belief_confidence        |-> conf,
          opponent_offer_history   |-> oh,
          my_offer_history         |-> mh,
          round_count              |-> rc ]

\* The belief-informed branch of TheoryOfMindAgent.propose (confidence >= 0.3),
\* on the updated model u.
TomInformed(a, u, last) ==
    LET t  == a.target_price
        delta == last - t
        cf == IF u.strategy_type = "cooperative" THEN Frac(4, 10)
              ELSE IF u.strategy_type = "stubborn" THEN Frac(7, 10)
              ELSE Frac(5, 10)
        p0 == t + Mul(delta, cf)
        p1 == IF ~IsNone(u.target_price_estimate) /\ a.fairness_weight > Frac(1, 2)
              THEN LET midpoint == RoundDiv(t + Val(u.target_price_estimate), 2)
                   IN  Mul(Scale - a.fairness_weight, p0) + Mul(a.fairness_weight, midpoint)
              ELSE p0
        p2 == IF u.patience_level > Frac(7, 10) THEN RoundDiv(7 * p1 + 3 * t, 10)
              ELSE IF u.patience_level < Frac(3, 10) THEN RoundDiv(9 * p1 + t, 10)
              ELSE p1
    IN  Clamp(a, p2)

\* A propose whose fallback test is confidence <= 0.3 in place of < 0.3.
TomProposeInclusive(a, st, last) ==
    IF IsNone(last)
    THEN [price |-> a.target_price, st |-> st]
    ELSE LET my_last == IF st.my_offer_history = <<>> THEN None
                        ELSE Some(Last(st.my_offer_history))
             u == TomUpdate(a, st, Val(last), my_last)
         IN  IF u.belief_confidence <= Frac(3, 10)
             THEN [price |-> a.target_price + RoundDiv(Val(last) - a.target_price, 2),
                   st    |-> u]
             ELSE LET proposed == TomInformed(a, u, Val(last))
                  IN  [price |-> proposed,
                       st    |-> [u EXCEPT !.my_offer_history = Append(@, proposed)]]

\* TheoryOfMindAgent.propose(last_offer_price): the returned price and the
\* agent's state after the call.
TomPropose(a, st, last) ==
    IF IsNone(last)
    THEN [price |-> a.target_price, st |-> st]
    ELSE LET my_last == IF st.my_offer_history = <<>> THEN None
                        ELSE Some(Last(st.my_offer_history))
             u == TomUpdate(a, st, Val(last), my_last)
         IN  IF u.belief_confidence < Frac(3, 10)
             THEN [price |-> a.target_price + RoundDiv(Val(last) - a.target_price, 2),
                   st    |-> u]
             ELSE LET proposed == TomInformed(a, u, Val(last))
                  IN  [price |-> proposed,
                       st    |-> [u EXCEPT !.my_offer_history = Append(@, proposed)]]

\* TheoryOfMindAgent.get_opponent_model_summary
TomSummary(st) ==
    [ target_price_estimate    |-> st.target_price_estimate,
      strategy_type            |-> st.strategy_type,
      concession_rate_estimate |-> st.concession_rate_estimate,
      patience_level           |-> st.patience_level,
      belief_confidence        |-> st.belief_confidence,
      rounds_observed          |-> Len(st.opponent_offer_history) ]

-----------------------------------------------------------------------------
(* UnifiedNegotiationAgent: the multi-module strategy. *)

\* self.beliefs, the two histories and round_count after __init__.
UniInit ==
    [ belief_target_price    |-> None,
      belief_stubbornness    |-> Frac(1, 2),
      belief_patience        |-> Frac(1, 2),
      opponent_offer_history |-> <<>>,
      my_offer_history       |-> <<>>,
      round_count            |-> 0 ]

\* self.opt_weights (the defaults), in tenths.
OptWeights == [utility |-> 4, fairness |-> 3, risk |-> 2, stubbornness |-> 1]

\* The concession percentages of cluster_behavior, in hundredths of a percent
\* (abs(curr - prev) / prev * 100), for the steps whose prev is positive.
ConcessionPcts(h) ==
    LET idx == {i \in 1..(Len(h) - 1) : h[i] > 0}
    IN  [i \in idx |-> RoundDiv(Abs(h[i + 1] - h[i]) * 10000, h[i])]

RECURSIVE SumFn(_, _)
SumFn(f, dom) ==
    IF dom = {} THEN 0
    ELSE LET i == CHOOSE j \in dom : TRUE IN f[i] + SumFn(f, dom \ {i})

\* UnifiedNegotiationAgent.cluster_behavior(offer_history)
ClusterBehavior(h) ==
    LET pcts == ConcessionPcts(h)
        cnt  == Cardinality(DOMAIN pcts)
        total == SumFn(pcts, DOMAIN pcts)
    IN  IF Len(h) < 2 \/ cnt = 0
        THEN [cluster |-> "moderate", cluster_score |-> Frac(5, 10)]
        ELSE IF total < 200 * cnt
        THEN [cluster |-> "stubborn", cluster_score |-> Frac(9, 10)]
        ELSE IF total < 700 * cnt
        THEN [cluster |-> "moderate", cluster_score |-> Frac(5, 10)]
        ELSE [cluster |-> "cooperative", cluster_score |-> Frac(1, 10)]

\* An update_beliefs with the two weights of the moving average exchanged:
\* 0.3 * old + 0.7 * latest.
UniUpdateBeliefsSwapped(a, st, offer) ==
    LET oh == Append(st.opponent_offer_history, offer)
        rc == st.round_count + 1
        n  == Len(oh)
        btp == IF IsNone(st.belief_target_price) THEN Some(offer)
               ELSE Some(RoundDiv(3 * Val(st.belief_target_price) + 7 * offer, 10))
        total_movement == Abs(oh[n] - oh[1])
        price_range == a.max_price - a.min_price
        patience ==
            IF n < 2 THEN st.belief_patience
            ELSE IF total_movement * 10 < price_range * rc THEN Frac(8, 10)
            ELSE IF total_movement * 10 > 2 * price_range * rc THEN Frac(2, 10)
            ELSE Frac(5, 10)
    IN  [ belief_target_price    |-> btp,
          belief_stubbornness    |-> IF n < 2 THEN st.belief_stubbornness
                                     ELSE ClusterBehavior(oh).cluster_score,
          belief_patience        |-> patience,
          opponent_offer_history |-> oh,
          my_offer_history       |-> st.my_offer_history,
          round_count            |-> rc ]

\* An update_beliefs that keeps the previous patience when the movement is
\* neither slow nor fast.
UniUpdateBeliefsKeepPatience(a, st, offer) ==
    LET oh == Append(st.opponent_offer_history, offer)
        rc == st.round_count + 1
        n  == Len(oh)
        btp == IF IsNone(st.belief_target_price) THEN Some(offer)
               ELSE Some(RoundDiv(7 * Val(st.belief_target_price) + 3 * offer, 10))
        total_movement == Abs(oh[n] - oh[1])
        price_range == a.max_price - a.min_price
        patience ==
            IF n < 2 THEN st.belief_patience
            ELSE IF total_movement * 10 < price_range * rc THEN Frac(8, 10)
            ELSE IF total_movement * 10 > 2 * price_range * rc THEN Frac(2, 10)
            ELSE st.belief_patience
    IN  [ belief_target_price    |-> btp,
          belief_stubbornness    |-> IF n < 2 THEN st.belief_stubbornness
                                     ELSE ClusterBehavior(oh).cluster_score,
          belief_patience        |-> patience,
          opponent_offer_history |-> oh,
          my_offer_history       |-> st.my_offer_history,
          round_count            |-> rc ]

\* UnifiedNegotiationAgent.update_beliefs(opponent_offer)
UniUpdateBeliefs(a, st, offer) ==
    LET oh == Append(st.opponent_offer_history, offer)
        rc == st.round_count + 1
        n  == Len(oh)
        btp == IF IsNone(st.belief_target_price) THEN Some(offer)
               ELSE Some(RoundDiv(7 * Val(st.belief_target_price) + 3 * offer, 10))
        total_movement == Abs(oh[n] - oh[1])
        price_range == a.max_price - a.min_price
        \* expected_movement_patient = price_range * 0.1 * round_count
        patience ==
            IF n < 2 THEN st.belief_patience
            ELSE IF total_movement * 10 < price_range * rc THEN Frac(8, 10)
            ELSE IF total_movement * 10 > 2 * price_range * rc THEN Frac(2, 10)
            ELSE Frac(5, 10)
    IN  [ belief_target_price    |-> btp,
          belief_stubbornness    |-> IF n < 2 THEN st.belief_stubbornness
                                     ELSE ClusterBehavior(oh).cluster_score,
          belief_patience        |-> patience,
          opponent_offer_history |-> oh,
          my_offer_history       |-> st.my_offer_history,
          round_count            |-> rc ]

\* The number of candidate prices of optimize_offer.
NumCandidates == 20

\* np.linspace(min_price, max_price, 20)[i], i = 0 .. 19.
Candidate(a, i) ==
    a.min_price + RoundDiv(i * (a.max_price - a.min_price), NumCandidates - 1)

\* The opponent target optimize_offer measures fairness against.
AssumedOpponentTarget(a, st, opponent_offer) ==
    IF ~IsNone(opponent_offer) /\ ~IsNone(st.belief_target_price)
    THEN Val(st.belief_target_price)
    ELSE LET midpoint2 == a.min_price + a.max_price   \* twice the midpoint
         IN  midpoint2 - a.target_price

\* An objective whose risk penalty is taken from the fairness term
\* (w_r * risk_score * fairness), so that the risk decides how much fairness
\* counts against utility.
ScoreRiskOnFairness(a, opponent_target, price, risk_score, stubbornness) ==
    LET utility == Utility(a, price)
        opponent_util ==
            Scale - RoundDiv(Abs(price - opponent_target) * Scale,
                             Max2(Scale, Abs(a.max_price - a.min_price)))
        fairness == Scale - Abs(utility - opponent_util)
    IN  OptWeights.utility * utility + OptWeights.fairness * fairness
        - OptWeights.risk * Mul(risk_score, fairness)
        - OptWeights.stubbornness * stubbornness

\* Ten times the objective of one candidate price:
\* w_u * utility + w_f * fairness - w_r * risk_score - w_s * stubbornness.
Score(a, opponent_target, price, risk_score, stubbornness) ==
    LET utility == Utility(a, price)
        opponent_util ==
            Scale - RoundDiv(Abs(price - opponent_target) * Scale,
                             Max2(Scale, Abs(a.max_price - a.min_price)))
        fairness == Scale - Abs(utility - opponent_util)
    IN  OptWeights.utility * utility + OptWeights.fairness * fairness
        - OptWeights.risk * risk_score - OptWeights.stubbornness * stubbornness

\* A loop of optimize_offer that replaces the best candidate on an equal
\* score too (score >= max_score), so that the last of several equal
\* candidates wins.
RECURSIVE BestFromLast(_, _, _, _, _, _, _)
BestFromLast(a, ot, risk, stub, i, best, maxs) ==
    IF i >= NumCandidates THEN best
    ELSE LET price == Candidate(a, i)
             score == Score(a, ot, price, risk, stub)
         IN  IF IsNone(maxs) \/ score >= Val(maxs)
             THEN BestFromLast(a, ot, risk, stub, i + 1, price, Some(score))
             ELSE BestFromLast(a, ot, risk, stub, i + 1, best, maxs)

\* The loop of optimize_offer from candidate i on: best is the best price so
\* far and maxs the best score so far (None is float('-inf')).
RECURSIVE BestFrom(_, _, _, _, _, _, _)
BestFrom(a, ot, risk, stub, i, best, maxs) ==
    IF i >= NumCandidates THEN best
    ELSE LET price == Candidate(a, i)
             score == Score(a, ot, price, risk, stub)
         IN  IF IsNone(maxs) \/ score > Val(maxs)
             THEN BestFrom(a, ot, risk, stub, i + 1, price, Some(score))
             ELSE BestFrom(a, ot, risk, stub, i + 1, best, maxs)

\* UnifiedNegotiationAgent.optimize_offer(...)['best_price']
OptimizeOffer(a, st, opponent_offer, risk_score, stubbornness) ==
    BestFrom(a, AssumedOpponentTarget(a, st, opponent_offer), risk_score,
             stubbornness, 0, a.target_price, None)

\* A propose that counts a round on every call, the opening call included.
UniProposeCountsOpening(a, st, last, risk_score) ==
    LET u == IF IsNone(last) THEN [st EXCEPT !.round_count = @ + 1]
             ELSE UniUpdateBeliefs(a, st, Val(last))
        proposed == OptimizeOffer(a, u, last, risk_score, u.belief_stubbornness)
    IN  [price |-> proposed,
         st    |-> [u EXCEPT !.my_offer_history = Append(@, proposed)]]

\* UnifiedNegotiationAgent.propose(last_offer): the returned price and the
\* agent's state after the call.  risk_score is evaluate_risk's result: the
\* logistic function is not computed here, the caller supplies any value of
\* its range.
UniPropose(a, st, last, risk_score) ==
    LET u == IF IsNone(last) THEN st ELSE UniUpdateBeliefs(a, st, Val(last))
        proposed == OptimizeOffer(a, u, last, risk_score, u.belief_stubbornness)
    IN  [price |-> proposed,
         st    |-> [u EXCEPT !.my_offer_history = Append(@, proposed)]]

-----------------------------------------------------------------------------
(* State *)

VARIABLES
    heap,      \* the strategy objects that exist: a sequence, the index is
               \* the object's identity
    trace,     \* the direct calls made on heap[1] so far, with their results
    mode,      \* how the loop invocations are scheduled (see CanStart)
    args,      \* per invocation: the arguments of the loop function
    pc,        \* per invocation: the position in the loop function
    frame,     \* per invocation: the local variables of the loop function
    timeline,  \* per invocation: the timeline list
    result,    \* per invocation: the returned agreement (None before return)
    calls,     \* per invocation: the propose calls made, in order
    db         \* the database of the HTTP routes: the Session, Offer and
               \* Agreement tables

vars == <<heap, trace, mode, args, pc, frame, timeline, result, calls, db>>

\* The loop invocations (sessions) of the model.
Inv == {1, 2}

\* A strategy object: its class, its configuration, the mutable state of a
\* TheoryOfMindAgent / UnifiedNegotiationAgent (unused by the other classes)
\* and, for the unified agent, the value evaluate_risk returns for it (a
\* function of target_price and quantity only).
Object(kind, cfg, risk) ==
    [kind |-> kind, cfg |-> cfg, tom |-> TomInit, uni |-> UniInit, risk |-> risk]

\* obj.propose(last): dispatch on the class; the returned price and the
\* object after the call.
ObjPropose(obj, last) ==
    IF obj.kind = "base"
    THEN [price |-> BasePropose(obj.cfg, last), obj |-> obj]
    ELSE IF obj.kind = "tom"
    THEN LET r == TomPropose(obj.cfg, obj.tom, last)
         IN  [price |-> r.price, obj |-> [obj EXCEPT !.tom = r.st]]
    ELSE LET r == UniPropose(obj.cfg, obj.uni, last, obj.risk)
         IN  [price |-> r.price, obj |-> [obj EXCEPT !.uni = r.st]]

\* The database after create_all: three empty tables.  A row's id is its
\* index in its table.
EmptyDb == [sessions |-> <<>>, offers |-> <<>>, agreements |-> <<>>]

\* The state of the loop part and of the database while only direct calls
\* are made.
NoLoops ==
    /\ db = EmptyDb
    /\ mode = "direct"
    /\ args = [s \in Inv |-> None]
    /\ pc = [s \in Inv |-> "idle"]
    /\ frame = [s \in Inv |-> None]
    /\ timeline = [s \in Inv |-> <<>>]
    /\ result = [s \in Inv |-> None]
    /\ calls = [s \in Inv |-> <<>>]

loopVars == <<mode, args, pc, frame, timeline, result, calls>>

-----------------------------------------------------------------------------
(* Direct calls of propose and utility on one strategy object *)

\* The number of direct calls made on the object.
MaxCalls == 4

\* A party given in whole price units, weights in tenths.
Party(t, lo, hi, q, fw10, agg10, market) ==
    BaseAgent(P(t), P(lo), P(hi), q, Frac(fw10, 10), Frac(agg10, 10), market)

\* Valid parties the direct calls are made on.
ProposeParties ==
    { Party(100, 80, 120, 1, 5, 5, None),
      Party(85, 50, 100, 60, 7, 5, None),
      Party(95, 50, 100, 60, 5, 0, Some(P(90))),
      Party(60, 50, 100, 2, 5, 10, Some(P(70))),
      Party(50, 50, 50, 1, 8, 5, None) }

\* The values evaluate_risk may return (the logistic function's range).
RiskScores == {Frac(1, 4), Frac(3, 4)}

\* The strategy objects a direct call is made on.
ProposeObjects ==
    {Object("base", c, 0) : c \in ProposeParties}
    \cup {Object("tom", TomConfig(c.target_price, c.min_price, c.max_price,
                                  c.quantity, c.fairness_weight), 0) :
          c \in ProposeParties}
    \cup {Object("unified", c, k) : c \in ProposeParties, k \in RiskScores}

\* Opponent offers, some of them outside every party's own range.
OpponentOffers ==
    {None, Some(P(40)), Some(P(90)), Some(P(93)), Some(P(95)), Some(P(200))}

InitPropose ==
    /\ heap \in {<<o>> : o \in ProposeObjects}
    /\ trace = <<>>
    /\ NoLoops

\* heap[1].propose(x)
CallPropose(x) ==
    /\ Len(trace) < MaxCalls
    /\ LET r == ObjPropose(heap[1], x)
       IN  /\ heap' = [heap EXCEPT ![1] = r.obj]
           /\ trace' = Append(trace, [op |-> "propose", arg |-> x, value |-> r.price])
    /\ UNCHANGED <<loopVars, db>>

NextPropose == \E x \in OpponentOffers : CallPropose(x)

SpecPropose == InitPropose /\ [][NextPropose]_vars

-----------------------------------------------------------------------------
(* The negotiation loops.  variant "base" is run_negotiation_loop with       *)
(* use_tom = False, "use_tom" is run_negotiation_loop with use_tom = True,   *)
(* "tom_loop" is run_tom_negotiation_loop.                                   *)

\* The default of max_rounds.
DefaultMaxRounds == 8

\* A stop test that forgets the fairness threshold.
StopOnGapOnly(bprice, sprice, fairness) == Abs(bprice - sprice) <= Scale

\* The stop test of both loops:
\* abs(bprice - sprice) <= 1.0 or simple_fairness >= 0.9
StopCondition(bprice, sprice, fairness) ==
    \/ Abs(bprice - sprice) <= Scale
    \/ 10 * fairness >= 9 * Scale

\* A final price that adds the two offers and forgets to halve the sum.
FinalPriceSum(bprice, sprice) == bprice + sprice

\* (bprice + sprice) / 2.0
FinalPrice(bprice, sprice) == RoundDiv(bprice + sprice, 2)

\* The opponent offer the buyer strategy is called with: last_seller.
BuyerInput(f) == f.last_seller

\* A seller that is given the buyer's offer of the round before.
SellerInputStale(f) == f.last_buyer

\* The opponent offer the seller strategy is called with: bprice.
SellerInput(f) == Some(f.bprice)

\* The record appended to the timeline for one round.
RoundRecord(variant, r, bprice, sprice, bu, su, fairness, btom, stom) ==
    IF variant = "tom_loop"
    THEN [ round |-> r, buyer_offer |-> bprice, seller_offer |-> sprice,
           buyer_util |-> bu, seller_util |-> su, fairness |-> fairness,
           buyer_tom_insights |-> Some(TomSummary(btom)),
           seller_tom_insights |-> Some(TomSummary(stom)) ]
    ELSE [ round |-> r, buyer_offer |-> bprice, seller_offer |-> sprice,
           buyer_util |-> bu, seller_util |-> su, fairness |-> fairness,
           buyer_tom_insights |->
               IF variant = "use_tom" THEN Some(TomSummary(btom)) ELSE None,
           seller_tom_insights |->
               IF variant = "use_tom" THEN Some(TomSummary(stom)) ELSE None ]

\* The agreement run_negotiation_loop returns for a final price (the same
\* code on the stop path and after the last round): utilities and fairness
\* are computed at final_price.
MainAgreement(b, s, final_price) ==
    LET fbu == Utility(b, final_price)
        fsu == Utility(s, final_price)
    IN  [ price          |-> final_price,
          quantity       |-> b.quantity,
          fairness       |-> SimpleFairness(fbu, fsu),
          buyer_utility  |-> fbu,
          seller_utility |-> fsu ]

\* The agreement run_tom_negotiation_loop returns: the fairness is the one
\* of the round that ended the loop (of the last record after max_rounds).
TomLoopAgreement(b, final_price, fairness, rounds) ==
    [ price |-> final_price, quantity |-> b.quantity,
      fairness |-> fairness, rounds |-> rounds ]

\* The agreement returned when the stop test holds in round r.
StopAgreement(variant, b, s, r, bprice, sprice, fairness) ==
    IF variant = "tom_loop"
    THEN TomLoopAgreement(b, FinalPrice(bprice, sprice), fairness, r)
    ELSE MainAgreement(b, s, FinalPrice(bprice, sprice))

\* The agreement returned after the last round (last_buyer, last_seller are
\* the offers of the last round).
ExhaustedAgreement(variant, b, s, max_rounds, last_buyer, last_seller, tl) ==
    IF variant = "tom_loop"
    THEN TomLoopAgreement(b, FinalPrice(last_buyer, last_seller),
                          IF tl # <<>> THEN Last(tl).fairness ELSE Scale,
                          max_rounds)
    ELSE MainAgreement(b, s, FinalPrice(last_buyer, last_seller))

\* The TheoryOfMindAgent run_negotiation_loop builds from a BaseAgent.
TomObjectOf(base) ==
    Object("tom", TomConfig(base.cfg.target_price, base.cfg.min_price,
                            base.cfg.max_price, base.cfg.quantity,
                            base.cfg.fairness_weight), 0)

\* A loop that keeps its two TheoryOfMindAgents in one place and uses them
\* again when they exist already.
ReuseTomAgents(h, a) ==
    IF a.variant # "use_tom"
    THEN [heap |-> h, buyer |-> a.buyer_agent, seller |-> a.seller_agent]
    ELSE IF \E i \in 1..Len(h) : h[i].kind = "tom"
    THEN LET i == CHOOSE j \in 1..Len(h) :
                      h[j].kind = "tom" /\ \A k \in 1..(j - 1) : h[k].kind # "tom"
         IN  [heap |-> h, buyer |-> i, seller |-> i + 1]
    ELSE [ heap   |-> h \o <<TomObjectOf(h[a.buyer_agent]), TomObjectOf(h[a.seller_agent])>>,
           buyer  |-> Len(h) + 1,
           seller |-> Len(h) + 2 ]

\* A loop that lets the agents passed in propose, with use_tom too.
ActiveAgentsBaseOnly(h, a) ==
    [heap |-> h, buyer |-> a.buyer_agent, seller |-> a.seller_agent]

\* The strategy objects that propose in an invocation with arguments a, and
\* the heap once they exist: with use_tom two new TheoryOfMindAgents are
\* constructed, otherwise the objects passed in propose.
ActiveAgents(h, a) ==
    IF a.variant = "use_tom"
    THEN [ heap   |-> h \o <<TomObjectOf(h[a.buyer_agent]), TomObjectOf(h[a.seller_agent])>>,
           buyer  |-> Len(h) + 1,
           seller |-> Len(h) + 2 ]
    ELSE [heap |-> h, buyer |-> a.buyer_agent, seller |-> a.seller_agent]

\* Which invocation may start: "single" runs invocation 1 only, "repeat"
\* runs invocation 2 after invocation 1 has ended, "concurrent" interleaves
\* the two.
CanStart(s) ==
    \/ mode = "single" /\ s = 1
    \/ mode = "repeat" /\ (s = 1 \/ pc[1] \in {"done", "error"})
    \/ mode = "concurrent"

\* The function is entered: locals are initialised, the ToM agents are built
\* and the for loop is reached.
Invoke(s) ==
    /\ pc[s] = "idle"
    /\ CanStart(s)
    /\ LET act == ActiveAgents(heap, args[s])
       IN  /\ heap' = act.heap
           /\ frame' = [frame EXCEPT ![s] =
                  [ r |-> 1, last_buyer |-> None, last_seller |-> None,
                    bprice |-> 0, sprice |-> 0, buyer_util |-> 0, seller_util |-> 0,
                    active_buyer |-> act.buyer, active_seller |-> act.seller ]]
    /\ timeline' = [timeline EXCEPT ![s] = <<>>]
    /\ pc' = [pc EXCEPT ![s] = IF 1 <= args[s].max_rounds THEN "buyer" ELSE "after_loop"]
    /\ UNCHANGED <<trace, mode, args, result, calls, db>>

\* bprice = active_buyer.propose(last_seller); buyer_util = buyer_agent.utility(bprice)
BuyerProposes(s) ==
    /\ pc[s] = "buyer"
    /\ LET f == frame[s]
           x == BuyerInput(f)
           res == ObjPropose(heap[f.active_buyer], x)
       IN  /\ heap' = [heap EXCEPT ![f.active_buyer] = res.obj]
           /\ frame' = [frame EXCEPT ![s] =
                  [f EXCEPT !.bprice = res.price,
                            !.buyer_util = Utility(heap[args[s].buyer_agent].cfg, res.price)]]
           /\ calls' = [calls EXCEPT ![s] =
                  Append(@, [who |-> "buyer", round |-> f.r, arg |-> x, price |-> res.price])]
    /\ pc' = [pc EXCEPT ![s] = "seller"]
    /\ UNCHANGED <<trace, mode, args, timeline, result, db>>

\* sprice = active_seller.propose(bprice); seller_util = seller_agent.utility(sprice)
SellerProposes(s) ==
    /\ pc[s] = "seller"
    /\ LET f == frame[s]
           x == SellerInput(f)
           res == ObjPropose(heap[f.active_seller], x)
       IN  /\ heap' = [heap EXCEPT ![f.active_seller] = res.obj]
           /\ frame' = [frame EXCEPT ![s] =
                  [f EXCEPT !.sprice = res.price,
                            !.seller_util = Utility(heap[args[s].seller_agent].cfg, res.price)]]
           /\ calls' = [calls EXCEPT ![s] =
                  Append(@, [who |-> "seller", round |-> f.r, arg |-> x, price |-> res.price])]
    /\ pc' = [pc EXCEPT ![s] = "record"]
    /\ UNCHANGED <<trace, mode, args, timeline, result, db>>

\* The rest of the loop body: fairness, the timeline record, the stop test
\* with the return on success, else the step to the next round.
RecordRound(s) ==
    /\ pc[s] = "record"
    /\ LET f == frame[s]
           a == args[s]
           b == heap[a.buyer_agent].cfg
           sl == heap[a.seller_agent].cfg
           fairness == SimpleFairness(f.buyer_util, f.seller_util)
           rec == RoundRecord(a.variant, f.r, f.bprice, f.sprice, f.buyer_util,
                              f.seller_util, fairness,
                              heap[f.active_buyer].tom, heap[f.active_seller].tom)
       IN  /\ timeline' = [timeline EXCEPT ![s] = Append(@, rec)]
           /\ IF StopCondition(f.bprice, f.sprice, fairness)
              THEN /\ result' = [result EXCEPT ![s] =
                          Some(StopAgreement(a.variant, b, sl, f.r, f.bprice, f.sprice, fairness))]
                   /\ pc' = [pc EXCEPT ![s] = "done"]
                   /\ UNCHANGED frame
              ELSE /\ frame' = [frame EXCEPT ![s] =
                          [f EXCEPT !.last_buyer = Some(f.bprice),
                                    !.last_seller = Some(f.sprice),
                                    !.r = f.r + 1]]
                   /\ pc' = [pc EXCEPT ![s] =
                          IF f.r + 1 <= a.max_rounds THEN "buyer" ELSE "after_loop"]
                   /\ UNCHANGED result
    /\ UNCHANGED <<heap, trace, mode, args, calls, db>>

\* The code after the for loop: (last_buyer + last_seller) / 2.0 raises a
\* TypeError when no round ran (both are None), else the agreement is
\* returned.
AfterLoop(s) ==
    /\ pc[s] = "after_loop"
    /\ LET f == frame[s]
           a == args[s]
       IN  IF IsNone(f.last_buyer) \/ IsNone(f.last_seller)
           THEN /\ pc' = [pc EXCEPT ![s] = "error"]
                /\ UNCHANGED result
           ELSE /\ pc' = [pc EXCEPT ![s] = "done"]
                /\ result' = [result EXCEPT ![s] =
                       Some(ExhaustedAgreement(a.variant, heap[a.buyer_agent].cfg,
                                               heap[a.seller_agent].cfg, a.max_rounds,
                                               Val(f.last_buyer), Val(f.last_seller),
                                               timeline[s]))]
    /\ UNCHANGED <<heap, trace, mode, args, frame, timeline, calls, db>>

NextLoop ==
    \E s \in Inv :
        \/ Invoke(s)
        \/ BuyerProposes(s)
        \/ SellerProposes(s)
        \/ RecordRound(s)
        \/ AfterLoop(s)

-----------------------------------------------------------------------------
(* One invocation of a loop *)

\* The largest max_rounds tried besides the default.
MaxRounds == 3

\* max_rounds as passed by the caller; nothing checks that it is positive.
RoundChoices == (-1 .. MaxRounds) \cup {DefaultMaxRounds}

Variants == {"base", "use_tom", "tom_loop"}

\* Buyer-side parties: valid ones, then a reversed range, a target outside
\* the range and non-positive quantities.
Buyers ==
    { Party(85, 50, 100, 60, 5, 5, None),
      Party(60, 50, 100, 60, 5, 0, None),
      Party(60, 50, 100, 2, 7, 10, Some(P(70))),
      Party(20, 10, 50, 1, 7, 5, None),
      Party(85, 100, 50, 60, 5, 5, None),
      Party(30, 50, 100, 60, 5, 5, None),
      Party(85, 50, 100, 0, 5, 5, None),
      Party(85, 50, 100, -3, 5, 5, None) }

\* Seller-side parties.
Sellers ==
    { Party(95, 50, 100, 60, 5, 5, None),
      Party(95, 40, 140, 60, 7, 0, None),
      Party(100, 80, 120, 1, 5, 10, Some(P(90))),
      Party(130, 80, 120, 1, 5, 5, None) }

\* The two agents the caller passes: BaseAgents for run_negotiation_loop,
\* TheoryOfMindAgents for run_tom_negotiation_loop.
CallerObjects(variant, b, sl) ==
    IF variant = "tom_loop"
    THEN << Object("tom", TomConfig(b.target_price, b.min_price, b.max_price,
                                    b.quantity, b.fairness_weight), 0),
            Object("tom", TomConfig(sl.target_price, sl.min_price, sl.max_price,
                                    sl.quantity, sl.fairness_weight), 0) >>
    ELSE <<Object("base", b, 0), Object("base", sl, 0)>>

LoopArgs(b, sl, m, v) ==
    [buyer_agent |-> b, seller_agent |-> sl, max_rounds |-> m, variant |-> v]

\* The loop part before any invocation; the database is not used.
LoopIdle ==
    /\ db = EmptyDb
    /\ trace = <<>>
    /\ pc = [s \in Inv |-> "idle"]
    /\ frame = [s \in Inv |-> None]
    /\ timeline = [s \in Inv |-> <<>>]
    /\ result = [s \in Inv |-> None]
    /\ calls = [s \in Inv |-> <<>>]

InitLoop ==
    /\ mode = "single"
    /\ \E b \in Buyers, sl \in Sellers, m \in RoundChoices, v \in Variants :
           /\ heap = CallerObjects(v, b, sl)
           /\ args = [s \in Inv |-> IF s = 1 THEN LoopArgs(1, 2, m, v) ELSE None]
    /\ LoopIdle

SpecLoop == InitLoop /\ [][NextLoop]_vars

\* Two invocations one after the other, the second with the arguments of the
\* first: the same agent objects, max_rounds and variant.
InitRepeat ==
    /\ mode = "repeat"
    /\ \E b \in Buyers, sl \in Sellers, m \in RoundChoices, v \in Variants :
           /\ heap = CallerObjects(v, b, sl)
           /\ args = [s \in Inv |-> LoopArgs(1, 2, m, v)]
    /\ LoopIdle

SpecRepeat == InitRepeat /\ [][NextLoop]_vars

-----------------------------------------------------------------------------
(* The loop as one sequential computation: what an invocation returns when   *)
(* nothing else runs.                                                        *)

\* Rounds r .. max_rounds of the loop, from the state at the top of round r:
\* bobj and sobj are the proposing objects, b and sl the parties whose
\* utility is taken, tl the timeline so far.
RECURSIVE LoopFrom(_, _, _, _, _, _, _, _, _, _)

\* The rest of round r once both offers are made: bres and sres are what the
\* buyer's and the seller's propose returned.
LoopRound(v, b, sl, max_rounds, r, tl, bres, sres) ==
    LET bu == Utility(b, bres.price)
        su == Utility(sl, sres.price)
        fairness == SimpleFairness(bu, su)
        tl2 == Append(tl, RoundRecord(v, r, bres.price, sres.price, bu, su,
                                      fairness, bres.obj.tom, sres.obj.tom))
    IN  IF StopCondition(bres.price, sres.price, fairness)
        THEN [timeline |-> tl2,
              result |-> Some(StopAgreement(v, b, sl, r, bres.price, sres.price,
                                            fairness)),
              pc |-> "done"]
        ELSE LoopFrom(v, b, sl, bres.obj, sres.obj, max_rounds, r + 1,
                      Some(bres.price), Some(sres.price), tl2)

\* Round r after the buyer's offer: the seller answers it.
LoopSeller(v, b, sl, sobj, max_rounds, r, tl, bres) ==
    LoopRound(v, b, sl, max_rounds, r, tl, bres, ObjPropose(sobj, Some(bres.price)))

LoopFrom(v, b, sl, bobj, sobj, max_rounds, r, last_buyer, last_seller, tl) ==
    IF r > max_rounds
    THEN IF IsNone(last_buyer) \/ IsNone(last_seller)
         THEN [timeline |-> tl, result |-> None, pc |-> "error"]
         ELSE [timeline |-> tl,
               result |-> Some(ExhaustedAgreement(v, b, sl, max_rounds, Val(last_buyer),
                                                  Val(last_seller), tl)),
               pc |-> "done"]
    ELSE LoopSeller(v, b, sl, sobj, max_rounds, r, tl, ObjPropose(bobj, last_seller))

\* The outcome of the loop called alone on the agents bo, so with max_rounds
\* m and variant v.
RunAlone(bo, so, m, v) ==
    LoopFrom(v, bo.cfg, so.cfg,
             IF v = "use_tom" THEN TomObjectOf(bo) ELSE bo,
             IF v = "use_tom" THEN TomObjectOf(so) ELSE so,
             m, 1, None, None, <<>>)

-----------------------------------------------------------------------------
(* Concurrent sessions: run_auto builds the two agents of a session from its *)
(* row and calls run_negotiation_loop.                                       *)

\* A session row with the market price already fetched.
SessionRow(role, t, lo, hi, q, fw10, agg10, m, market) ==
    [ role |-> role, target_price |-> P(t), min_price |-> P(lo), max_price |-> P(hi),
      quantity |-> q, fairness_weight |-> Frac(fw10, 10),
      aggressiveness |-> Frac(agg10, 10), max_rounds |-> m, market_price |-> market ]

\* The buyer and seller agents run_auto constructs: the user's side from the
\* row, the other side with its target 80% (seller) or 20% (buyer) of the
\* way from min_price to max_price.
AutoAgents(row) ==
    LET user == BaseAgent(row.target_price, row.min_price, row.max_price, row.quantity,
                          row.fairness_weight, row.aggressiveness, row.market_price)
        other(tenths) ==
            BaseAgent(row.min_price + RoundDiv((row.max_price - row.min_price) * tenths, 10),
                      row.min_price, row.max_price, row.quantity,
                      row.fairness_weight, row.aggressiveness, row.market_price)
    IN  IF row.role = "buyer"
        THEN <<Object("base", user, 0), Object("base", other(8), 0)>>
        ELSE <<Object("base", other(2), 0), Object("base", user, 0)>>

SessionRows ==
    { SessionRow("buyer", 85, 50, 100, 60, 7, 6, 8, None),
      SessionRow("seller", 95, 50, 100, 60, 5, 5, 3, None),
      SessionRow("buyer", 60, 50, 100, 2, 5, 0, 2, Some(P(70))),
      SessionRow("buyer", 20, 10, 150, 1, 7, 10, 8, None),
      SessionRow("seller", 140, 10, 150, 1, 3, 10, 4, None) }

InitSessions ==
    /\ mode = "concurrent"
    /\ \E r1 \in SessionRows, r2 \in SessionRows, v1 \in {"base", "use_tom"},
          v2 \in {"base", "use_tom"} :
           /\ heap = AutoAgents(r1) \o AutoAgents(r2)
           /\ args = [s \in Inv |-> IF s = 1 THEN LoopArgs(1, 2, r1.max_rounds, v1)
                                    ELSE LoopArgs(3, 4, r2.max_rounds, v2)]
    /\ LoopIdle

SpecSessions == InitSessions /\ [][NextLoop]_vars

-----------------------------------------------------------------------------
(* utility as a function: direct calls on a party *)

\* Prices in half units up to this many whole units above min_price.
MaxSpan == 4

\* Valid parties: min <= target <= max, among them ranges narrower than one
\* price unit and the empty range max = min.
UtilityParties ==
    { BaseAgent(P(10) + t * Frac(1, 2), P(10), P(10) + w * Frac(1, 2), 1,
                Frac(1, 2), Frac(1, 2), None) :
          t \in 0..(2 * MaxSpan), w \in 0..(2 * MaxSpan) }
    \cup { Party(100, 80, 120, 1, 5, 5, None), Party(85, 50, 100, 60, 5, 5, None) }

\* The prices of [min_price, max_price] on the half-unit grid.
PricesOf(a) ==
    {a.min_price + k * Frac(1, 2) : k \in 0..(2 * 100)} \cap (a.min_price .. a.max_price)

InitUtility ==
    /\ heap \in {<<Object("base", a, 0)>> : a \in {c \in UtilityParties : ValidParty(c)}}
    /\ trace = <<>>
    /\ NoLoops

\* heap[1].utility(p)
CallUtility(p) ==
    /\ Len(trace) < 1
    /\ trace' = <<[op |-> "utility", arg |-> Some(p), value |-> Utility(heap[1].cfg, p)]>>
    /\ UNCHANGED <<heap, loopVars, db>>

NextUtility == \E p \in PricesOf(heap[1].cfg) : CallUtility(p)

SpecUtility == InitUtility /\ [][NextUtility]_vars

-----------------------------------------------------------------------------
(* The fairness calculator as functions: direct calls *)

\* 1 / epsilon of calculate_proportional_fairness (epsilon = 1e-6).
EpsilonInverse == 1000000

\* max(epsilon, u) in units of epsilon: every u <= 0 (and every u below
\* epsilon) becomes 1.
FloorAtEpsilon(u) ==
    IF u <= 0 THEN 1 ELSE Max2(1, RoundDiv(u * EpsilonInverse, Scale))

\* The largest k with 2^k <= m (m >= 1), from k on.
RECURSIVE Log2Floor(_, _)
Log2Floor(m, k) == IF 2 ^ (k + 1) > m THEN k ELSE Log2Floor(m, k + 1)

\* math.log(m), fixed-point: log2 by linear interpolation between the powers
\* of two, times ln 2 = 0.693.
Ln(m) ==
    LET k == Log2Floor(m, 0)
        log2 == k * Scale + ((m - 2 ^ k) * Scale) \div (2 ^ k)
    IN  RoundDiv(693 * log2, 1000)

\* math.log(x) for x given in units of epsilon.
MathLog(m) == Ln(m) - Ln(EpsilonInverse)

\* A proportional fairness with a sign slip: the logs are subtracted.
ProportionalFairnessDifference(buyer_util, seller_util) ==
    MathLog(FloorAtEpsilon(buyer_util)) - MathLog(FloorAtEpsilon(seller_util))

\* calculate_proportional_fairness(buyer_util, seller_util)
CalculateProportionalFairness(buyer_util, seller_util) ==
    MathLog(FloorAtEpsilon(buyer_util)) + MathLog(FloorAtEpsilon(seller_util))

\* The number of direct calls of the fairness functions.
MaxFairnessCalls == 2

\* Utilities the fairness functions are called with: negative (a price far
\* outside the range), zero, one fixed-point unit, and ordinary values.
FairnessUtilities ==
    {-Frac(1, 2), 0, 1, Frac(35, 100), Frac(3, 4), Scale}

InitFairness ==
    /\ heap = <<>>
    /\ trace = <<>>
    /\ NoLoops

\* simple_fairness = 1.0 - abs(buyer_util - seller_util)
CallSimpleFairness(bu, su) ==
    /\ Len(trace) < MaxFairnessCalls
    /\ trace' = Append(trace, [op |-> "simple_fairness", arg |-> <<bu, su>>,
                               value |-> SimpleFairness(bu, su)])
    /\ UNCHANGED <<heap, loopVars, db>>

\* calculate_proportional_fairness(bu, su)
CallProportionalFairness(bu, su) ==
    /\ Len(trace) < MaxFairnessCalls
    /\ trace' = Append(trace, [op |-> "proportional_fairness", arg |-> <<bu, su>>,
                               value |-> CalculateProportionalFairness(bu, su)])
    /\ UNCHANGED <<heap, loopVars, db>>

NextFairness ==
    \E bu \in FairnessUtilities, su \in FairnessUtilities :
        \/ CallSimpleFairness(bu, su)
        \/ CallProportionalFairness(bu, su)

SpecFairness == InitFairness /\ [][NextFairness]_vars

-----------------------------------------------------------------------------
(* The modules of the multi-module strategy called directly on one agent:   *)
(* update_beliefs and optimize_offer.                                       *)

\* The number of direct calls made on the agent.
MaxUnifiedCalls == 3

\* The agents the modules are called on.
UnifiedObjects == {Object("unified", c, k) : c \in ProposeParties, k \in RiskScores}

\* Opponent offers passed to update_beliefs.
BeliefOffers == {P(95), P(93), P(91)}

\* opponent_offer arguments of optimize_offer.
OptimizeOffers == {None, Some(P(95))}

\* <<risk_score, stubbornness>> arguments of optimize_offer: a low risk with
\* a cooperative opponent's cluster score, a high risk with a stubborn one's.
OptimizeScores == {<<Frac(1, 4), Frac(1, 10)>>, <<Frac(3, 4), Frac(9, 10)>>}

InitUnified ==
    /\ heap \in {<<o>> : o \in UnifiedObjects}
    /\ trace = <<>>
    /\ NoLoops

\* heap[1].update_beliefs(x); the trace keeps the estimate after the call.
CallUpdateBeliefs(x) ==
    /\ Len(trace) < MaxUnifiedCalls
    /\ LET u == UniUpdateBeliefs(heap[1].cfg, heap[1].uni, x)
       IN  /\ heap' = [heap EXCEPT ![1].uni = u]
           /\ trace' = Append(trace, [op |-> "update_beliefs", arg |-> Some(x),
                                      value |-> u.belief_target_price])
    /\ UNCHANGED <<loopVars, db>>

\* heap[1].optimize_offer(opponent_offer, risk_score, stubbornness); the
\* trace keeps the arguments, the belief estimate at the time of the call,
\* the opponent target the call measured fairness against and best_price.
CallOptimizeOffer(opponent_offer, risk_score, stubbornness) ==
    /\ Len(trace) < MaxUnifiedCalls
    /\ trace' = Append(trace,
           [ op |-> "optimize_offer", arg |-> opponent_offer,
             risk_score |-> risk_score, stubbornness |-> stubbornness,
             belief |-> heap[1].uni.belief_target_price,
             opponent_target |->
                 AssumedOpponentTarget(heap[1].cfg, heap[1].uni, opponent_offer),
             value |-> OptimizeOffer(heap[1].cfg, heap[1].uni, opponent_offer,
                                     risk_score, stubbornness) ])
    /\ UNCHANGED <<heap, loopVars, db>>

NextUnified ==
    \/ \E x \in BeliefOffers : CallUpdateBeliefs(x)
    \/ \E o \in OptimizeOffers, scores \in OptimizeScores :
           CallOptimizeOffer(o, scores[1], scores[2])

SpecUnified == InitUnified /\ [][NextUnified]_vars

-----------------------------------------------------------------------------
(* cluster_behavior as a function: direct calls with an offer history *)

\* The longest offer history built from HistoryOffers.
MaxHistory == 3

\* The offers the histories are built from.
HistoryOffers == {0, P(100), P(102), P(120), P(125), P(132)}

\* The histories cluster_behavior is called with: every history of up to
\* MaxHistory offers, and two longer ones (a slowly and a quickly moving
\* opponent).
Histories ==
    UNION {[1..n -> HistoryOffers] : n \in 0..MaxHistory}
    \cup { <<P(100), Frac(1005, 10), Frac(1008, 10), P(101), Frac(1012, 10)>>,
           <<P(100), P(92), P(85), P(78), P(72)>> }

InitCluster ==
    /\ heap \in {<<o>> : o \in UnifiedObjects}
    /\ trace = <<>>
    /\ NoLoops

\* heap[1].cluster_behavior(h)
CallClusterBehavior(h) ==
    /\ Len(trace) < 1
    /\ trace' = <<[op |-> "cluster_behavior", arg |-> h, value |-> ClusterBehavior(h)]>>
    /\ UNCHANGED <<heap, loopVars, db>>

NextCluster == \E h \in Histories : CallClusterBehavior(h)

SpecCluster == InitCluster /\ [][NextCluster]_vars

-----------------------------------------------------------------------------
(* predict_acceptance as a function: direct calls *)

\* A predict_acceptance whose fair band leaves out its two ends
\* (fair_low < offer < fair_high).
PredictAcceptanceOpenBand(offer, target_price) ==
    LET fair_low == RoundDiv(target_price * 95, 100)
        fair_high == RoundDiv(target_price * 105, 100)
    IN  IF offer <= fair_low
        THEN [ prediction |-> "reject", acceptance_probability |-> Frac(2, 10),
               fair_low |-> fair_low, fair_high |-> fair_high ]
        ELSE IF offer < fair_high
        THEN [ prediction |-> "likely_accept", acceptance_probability |-> Frac(8, 10),
               fair_low |-> fair_low, fair_high |-> fair_high ]
        ELSE [ prediction |-> "overpay_accept", acceptance_probability |-> Frac(95, 100),
               fair_low |-> fair_low, fair_high |-> fair_high ]

\* UnifiedNegotiationAgent.predict_acceptance(offer, target_price)
PredictAcceptance(offer, target_price) ==
    LET fair_low == RoundDiv(target_price * 95, 100)
        fair_high == RoundDiv(target_price * 105, 100)
    IN  IF offer < fair_low
        THEN [ prediction |-> "reject", acceptance_probability |-> Frac(2, 10),
               fair_low |-> fair_low, fair_high |-> fair_high ]
        ELSE IF fair_low <= offer /\ offer <= fair_high
        THEN [ prediction |-> "likely_accept", acceptance_probability |-> Frac(8, 10),
               fair_low |-> fair_low, fair_high |-> fair_high ]
        ELSE [ prediction |-> "overpay_accept", acceptance_probability |-> Frac(95, 100),
               fair_low |-> fair_low, fair_high |-> fair_high ]

\* Opponent target estimates predict_acceptance is called with.
PredictTargets == {0, P(60), P(100)}

\* Offers: below, at the two ends of, inside and above the fair bands, and
\* one fixed-point unit off the ends.
PredictOffers ==
    {0, P(57) - 1, P(57), P(60), P(63), P(63) + 1, P(90), P(95) - 1, P(95),
     P(100), P(105), P(105) + 1, P(110)}

InitPredict ==
    /\ heap \in {<<o>> : o \in UnifiedObjects}
    /\ trace = <<>>
    /\ NoLoops

\* heap[1].predict_acceptance(offer, target_price)
CallPredictAcceptance(offer, target_price) ==
    /\ Len(trace) < 1
    /\ trace' = <<[ op |-> "predict_acceptance", arg |-> <<offer, target_price>>,
                    value |-> PredictAcceptance(offer, target_price) ]>>
    /\ UNCHANGED <<heap, loopVars, db>>

NextPredict ==
    \E offer \in PredictOffers, target_price \in PredictTargets :
        CallPredictAcceptance(offer, target_price)

SpecPredict == InitPredict /\ [][NextPredict]_vars

-----------------------------------------------------------------------------
(* The HTTP routes on the database: create_session, run_auto,                *)
(* finalize_agreement and record_blockchain_transaction.  Every action is    *)
(* one request, handled from its first line to its response.  An absent or  *)
(* empty string (None, "") is the empty string.                              *)

\* The number of sessions created.
MaxSessions == 1

\* The number of requests made.
MaxRequests == 4

\* The session ids requests are made with: the ids that can exist and one
\* that never does.
SessionIds == 1..(MaxSessions + 1)

\* The addresses the routes fall back to.
DummySeller == "0x1111111111111111111111111111111111111111"

ZeroAddress == "0x0000000000000000000000000000000000000000"

\* x or y for strings
OrElse(x, y) == IF x = "" THEN y ELSE x

\* int(x) for a float x: truncation toward zero.
IntOf(x) == IF x >= 0 THEN x \div Scale ELSE -((-x) \div Scale)

\* utils.agreement_hash(buyer, seller, price, qty): the keccak hash of the
\* canonical string "buyer|seller|price|qty|0|1", kept as the parts of that
\* string (the hash is taken to be free of collisions; the addresses here
\* are lower case already).
AgreementHash(buyer, seller, price, qty) == <<buyer, seller, price, qty, 0, 1>>

\* The body of POST /sessions: a session row and the two addresses.
SessionPayload(row, buyer_address, seller_address) ==
    [row |-> row, buyer_address |-> buyer_address, seller_address |-> seller_address]

SessionPayloads ==
    { SessionPayload(SessionRow("buyer", 85, 50, 100, 60, 7, 6, 3, None), "0xb1", ""),
      SessionPayload(SessionRow("seller", 95, 50, 100, 60, 5, 10, 2, None), "", "0x51"),
      SessionPayload(SessionRow("buyer", 60, 50, 100, 2, 5, 0, 0, Some(P(70))), "0xb2", "0x52") }

\* The Session row create_session stores for a payload.  market_price is
\* the price the market service returns for the session's market_symbol
\* when run_auto fetches it (None without a symbol).
SessionRecord(payload) ==
    [ role                    |-> payload.row.role,
      buyer_address           |-> payload.buyer_address,
      seller_address          |-> OrElse(payload.seller_address, DummySeller),
      target_price            |-> payload.row.target_price,
      min_price               |-> payload.row.min_price,
      max_price               |-> payload.row.max_price,
      quantity                |-> payload.row.quantity,
      fairness_weight         |-> payload.row.fairness_weight,
      max_rounds              |-> payload.row.max_rounds,
      aggressiveness          |-> payload.row.aggressiveness,
      market_price            |-> payload.row.market_price,
      status                  |-> "open",
      blockchain_tx_hash      |-> "",
      blockchain_block_number |-> None ]

\* The Offer rows run_auto stores for a timeline: per round the buyer's
\* offer, then the seller's.
OfferRows(session_id, quantity, tl) ==
    [k \in 1..(2 * Len(tl)) |->
        LET rec == tl[(k + 1) \div 2]
            buyer == k % 2 = 1
        IN  [ session_id |-> session_id,
              round      |-> rec.round,
              made_by    |-> IF buyer THEN "buyer" ELSE "seller",
              price      |-> IF buyer THEN rec.buyer_offer ELSE rec.seller_offer,
              quantity   |-> quantity,
              fairness   |-> rec.fairness,
              proportional_fairness |->
                  Some(CalculateProportionalFairness(rec.buyer_util, rec.seller_util)),
              utility    |-> IF buyer THEN rec.buyer_util ELSE rec.seller_util ]]

\* The pairs <<first, second>> of Offer rows that
\* select(Offer).where(session_id).order_by(round.desc()).limit(2) may
\* return: two rows of the session with no other row of a later round; the
\* order among rows of one round is the database's choice.
LatestOffers(offers, session_id) ==
    LET S == {i \in 1..Len(offers) : offers[i].session_id = session_id}
    IN  { pair \in S \X S :
            /\ pair[1] # pair[2]
            /\ offers[pair[1]].round >= offers[pair[2]].round
            /\ \A k \in S \ {pair[1], pair[2]} : offers[k].round <= offers[pair[2]].round }

\* The Agreement row finalize_agreement builds from the session and the two
\* latest offers.
AgreementRow(session_id, session, first, second) ==
    LET final_price == RoundDiv(first.price + second.price, 2)
        pick(who) == IF second.made_by = who THEN Some(second.utility)
                     ELSE IF first.made_by = who THEN Some(first.utility)
                     ELSE None
    IN  [ session_id     |-> session_id,
          price          |-> final_price,
          quantity       |-> session.quantity,
          agreement_hash |->
              AgreementHash(OrElse(session.buyer_address, ZeroAddress),
                            OrElse(session.seller_address, ZeroAddress),
                            IntOf(final_price),
                            IF session.quantity = 0 THEN 1 ELSE session.quantity),
          final_fairness |-> Some(first.fairness),
          final_proportional_fairness |-> first.proportional_fairness,
          buyer_utility  |-> pick("buyer"),
          seller_utility |-> pick("seller") ]

\* An HTTP response: the status code and what it carries (for an error the
\* message of the exception raised in the handler).
Response(status, body) == [status |-> status, body |-> body]

InitRoutes ==
    /\ db = EmptyDb
    /\ heap = <<>>
    /\ trace = <<>>
    /\ mode = "direct"
    /\ args = [s \in Inv |-> None]
    /\ pc = [s \in Inv |-> "idle"]
    /\ frame = [s \in Inv |-> None]
    /\ timeline = [s \in Inv |-> <<>>]
    /\ result = [s \in Inv |-> None]
    /\ calls = [s \in Inv |-> <<>>]

\* POST /sessions
CreateSession(payload) ==
    /\ Len(trace) < MaxRequests
    /\ Len(db.sessions) < MaxSessions
    /\ db' = [db EXCEPT !.sessions = Append(@, SessionRecord(payload))]
    /\ trace' = Append(trace, [op |-> "create_session", arg |-> payload,
                               value |-> Response(200, Len(db.sessions) + 1)])
    /\ UNCHANGED <<heap, loopVars>>

\* POST /sessions/{session_id}/auto: 404 for an unknown session; else the
\* agents are built, run_negotiation_loop runs (an exception it raises
\* leaves the request without its commit) and the offers are stored.
RunAuto(session_id) ==
    /\ Len(trace) < MaxRequests
    /\ IF session_id \notin 1..Len(db.sessions)
       THEN /\ trace' = Append(trace, [op |-> "run_auto", arg |-> session_id,
                                       value |-> Response(404, "Session not found")])
            /\ UNCHANGED db
       ELSE \E s \in {db.sessions[session_id]} :
            \E agents \in {AutoAgents(s)} :
            \E out \in {RunAlone(agents[1], agents[2], s.max_rounds, "base")} :
                IF out.pc = "error"
                THEN /\ trace' = Append(trace, [op |-> "run_auto", arg |-> session_id,
                                                value |-> Response(500, "TypeError")])
                     /\ UNCHANGED db
                ELSE /\ db' = [db EXCEPT !.offers =
                                   @ \o OfferRows(session_id, s.quantity, out.timeline)]
                     /\ trace' = Append(trace,
                            [op |-> "run_auto", arg |-> session_id,
                             value |-> Response(200, [timeline |-> out.timeline,
                                                      agreement |-> Val(out.result)])])
    /\ UNCHANGED <<heap, loopVars>>

\* POST /sessions/{session_id}/finalize: the HTTPExceptions raised inside
\* the try block (unknown session, no offers) are caught by its
\* `except Exception` and answered with status 500; else an Agreement row is
\* added and the session's status set to "finalized".
FinalizeAgreement(session_id) ==
    /\ Len(trace) < MaxRequests
    /\ IF session_id \notin 1..Len(db.sessions)
       THEN /\ trace' = Append(trace, [op |-> "finalize_agreement", arg |-> session_id,
                                       value |-> Response(500, "Session not found")])
            /\ UNCHANGED db
       ELSE IF LatestOffers(db.offers, session_id) = {}
       THEN /\ trace' = Append(trace, [op |-> "finalize_agreement", arg |-> session_id,
                                       value |-> Response(500, "No offers found")])
            /\ UNCHANGED db
       ELSE \E pair \in LatestOffers(db.offers, session_id) :
                LET row == AgreementRow(session_id, db.sessions[session_id],
                                        db.offers[pair[1]], db.offers[pair[2]])
                IN  /\ db' = [db EXCEPT !.agreements = Append(@, row),
                                        !.sessions[session_id].status = "finalized"]
                    /\ trace' = Append(trace, [op |-> "finalize_agreement",
                                               arg |-> session_id,
                                               value |-> Response(200, row)])
    /\ UNCHANGED <<heap, loopVars>>

\* POST /sessions/{session_id}/record-blockchain: 400 without a tx_hash;
\* the 404 of an unknown session is raised inside the try block and
\* answered with status 500; else the transaction is stored on the session
\* and its status set to "recorded".
RecordBlockchainTransaction(session_id, tx_hash, block_number) ==
    /\ Len(trace) < MaxRequests
    /\ LET request == <<session_id, tx_hash, block_number>>
       IN  IF tx_hash = ""
           THEN /\ trace' = Append(trace, [op |-> "record_blockchain", arg |-> request,
                                           value |-> Response(400, "tx_hash required")])
                /\ UNCHANGED db
           ELSE IF session_id \notin 1..Len(db.sessions)
           THEN /\ trace' = Append(trace, [op |-> "record_blockchain", arg |-> request,
                                           value |-> Response(500, "Session not found")])
                /\ UNCHANGED db
           ELSE /\ db' = [db EXCEPT
                              !.sessions[session_id].blockchain_tx_hash = tx_hash,
                              !.sessions[session_id].blockchain_block_number = block_number,
                              !.sessions[session_id].status = "recorded"]
                /\ trace' = Append(trace, [op |-> "record_blockchain", arg |-> request,
                                           value |-> Response(200, tx_hash)])
    /\ UNCHANGED <<heap, loopVars>>

\* The bodies of POST record-blockchain: <<tx_hash, block_number>>, without
\* and with a tx_hash.
RecordPayloads == {<<"", None>>, <<"0xabc", Some(7)>>}

NextRoutes ==
    \/ \E payload \in SessionPayloads : CreateSession(payload)
    \/ \E id \in SessionIds : RunAuto(id)
    \/ \E id \in SessionIds : FinalizeAgreement(id)
    \/ \E id \in SessionIds, payload \in RecordPayloads :
           RecordBlockchainTransaction(id, payload[1], payload[2])

SpecRoutes == InitRoutes /\ [][NextRoutes]_vars

-----------------------------------------------------------------------------
(* The belief updates as functions: direct calls of                          *)
(* TheoryOfMindAgent.update_opponent_model and of                            *)
(* UnifiedNegotiationAgent.update_beliefs on one agent.                      *)

\* The number of belief updates made on the agent.
MaxBeliefCalls == 6

\* The modeling agents the updates are made on.
BeliefObjects ==
    {Object("tom", TomConfig(c.target_price, c.min_price, c.max_price,
                             c.quantity, c.fairness_weight), 0) :
        c \in ProposeParties}
    \cup {Object("unified", c, Frac(1, 4)) : c \in ProposeParties}

\* The opponent offers observed.
ObservedOffers == {P(90), P(95), P(120)}

InitBelief ==
    /\ heap \in {<<o>> : o \in BeliefObjects}
    /\ trace = <<>>
    /\ NoLoops

\* heap[1].update_opponent_model(x, None) on a TheoryOfMindAgent,
\* heap[1].update_beliefs(x) on a UnifiedNegotiationAgent; the trace keeps
\* the agent's beliefs and histories before and after the call.
CallBeliefUpdate(x) ==
    /\ Len(trace) < MaxBeliefCalls
    /\ IF heap[1].kind = "tom"
       THEN \E u \in {TomUpdate(heap[1].cfg, heap[1].tom, x, None)} :
                /\ heap' = [heap EXCEPT ![1].tom = u]
                /\ trace' = Append(trace, [op |-> "update_opponent_model",
                                           arg |-> Some(x),
                                           before |-> heap[1].tom, value |-> u])
       ELSE \E u \in {UniUpdateBeliefs(heap[1].cfg, heap[1].uni, x)} :
                /\ heap' = [heap EXCEPT ![1].uni = u]
                /\ trace' = Append(trace, [op |-> "update_beliefs",
                                           arg |-> Some(x),
                                           before |-> heap[1].uni, value |-> u])
    /\ UNCHANGED <<loopVars, db>>

NextBelief == \E x \in ObservedOffers : CallBeliefUpdate(x)

SpecBelief == InitBelief /\ [][NextBelief]_vars

-----------------------------------------------------------------------------
(* explain_offer as a function.  A text is kept as the name of its phrasing  *)
(* and the numbers formatted into it.                                        *)

\* f"{x:.2f}": x in hundredths.
Cents(x) == RoundDiv(x * 100, Scale)

\* f"{x:.1%}" of a ratio and f"{x:.1f}" of a percentage: in tenths of a
\* percent.
Permille(x) == RoundDiv(x * 1000, Scale)

\* A text of explain_offer.
Text(phrase, shown) == [phrase |-> phrase, shown |-> shown]

\* The tom_insights argument: "absent" is None or an empty dict, any other
\* value is the strategy_type of the dict ("None" for a strategy_type of
\* None).
NoInsights == "absent"

\* An explain_offer that tests fairness before aggressiveness.
ExplainOfferFairnessFirst(agent_type, price, last_opponent_offer, target_price, aggressiveness, fairness, market_price, tom_insights) ==
    IF IsNone(last_opponent_offer)
    THEN IF Truthy(market_price)
            /\ Abs(price - Val(market_price)) < Abs(target_price - Val(market_price))
         THEN Text("opening_market", <<Cents(price), Cents(Val(market_price))>>)
         ELSE Text("opening_target", <<Cents(price)>>)
    ELSE LET movement == IF agent_type = "buyer"
                         THEN Val(last_opponent_offer) - price
                         ELSE price - Val(last_opponent_offer)
         IN  IF tom_insights # NoInsights /\ tom_insights = "stubborn"
             THEN Text("stubborn", <<Cents(price)>>)
             ELSE IF tom_insights # NoInsights /\ tom_insights = "cooperative"
             THEN Text("cooperative", <<Cents(price)>>)
             ELSE IF fairness < Frac(5, 10)
             THEN Text("fairness_low", <<Cents(price), Permille(fairness)>>)
             ELSE IF fairness > Frac(8, 10)
             THEN Text("fairness_high", <<Cents(price), Permille(fairness)>>)
             ELSE IF aggressiveness > Frac(7, 10)
             THEN IF agent_type = "buyer"
                  THEN Text("aggressive_down", <<Cents(price)>>)
                  ELSE Text("aggressive_up", <<Cents(price)>>)
             ELSE IF aggressiveness < Frac(3, 10)
             THEN Text("generous", <<Cents(price)>>)
             ELSE IF Truthy(market_price) /\ agent_type = "buyer"
                     /\ price < Val(market_price)
             THEN Text("below_market", <<Cents(price), Cents(Val(market_price))>>)
             ELSE IF Truthy(market_price) /\ agent_type # "buyer"
                     /\ price > Val(market_price)
             THEN Text("above_market", <<Cents(price), Cents(Val(market_price))>>)
             ELSE IF Abs(movement) > Frac(1, 100)
             THEN Text("conceded_pct",
                       <<RoundDiv(Abs(movement) * 1000,
                                  Max2(Abs(Val(last_opponent_offer)), Scale)),
                         Cents(price)>>)
             ELSE Text("balance", <<Cents(price)>>)

\* explainer.explain_offer (concession_rate is not read by it)
ExplainOffer(agent_type, price, last_opponent_offer, target_price, aggressiveness, fairness, market_price, tom_insights) ==
    IF IsNone(last_opponent_offer)
    THEN IF Truthy(market_price)
            /\ Abs(price - Val(market_price)) < Abs(target_price - Val(market_price))
         THEN Text("opening_market", <<Cents(price), Cents(Val(market_price))>>)
         ELSE Text("opening_target", <<Cents(price)>>)
    ELSE LET movement == IF agent_type = "buyer"
                         THEN Val(last_opponent_offer) - price
                         ELSE price - Val(last_opponent_offer)
         IN  IF tom_insights # NoInsights /\ tom_insights = "stubborn"
             THEN Text("stubborn", <<Cents(price)>>)
             ELSE IF tom_insights # NoInsights /\ tom_insights = "cooperative"
             THEN Text("cooperative", <<Cents(price)>>)
             ELSE IF aggressiveness > Frac(7, 10)
             THEN IF agent_type = "buyer"
                  THEN Text("aggressive_down", <<Cents(price)>>)
                  ELSE Text("aggressive_up", <<Cents(price)>>)
             ELSE IF aggressiveness < Frac(3, 10)
             THEN Text("generous", <<Cents(price)>>)
             ELSE IF fairness < Frac(5, 10)
             THEN Text("fairness_low", <<Cents(price), Permille(fairness)>>)
             ELSE IF fairness > Frac(8, 10)
             THEN Text("fairness_high", <<Cents(price), Permille(fairness)>>)
             ELSE IF Truthy(market_price) /\ agent_type = "buyer"
                     /\ price < Val(market_price)
             THEN Text("below_market", <<Cents(price), Cents(Val(market_price))>>)
             ELSE IF Truthy(market_price) /\ agent_type # "buyer"
                     /\ price > Val(market_price)
             THEN Text("above_market", <<Cents(price), Cents(Val(market_price))>>)
             ELSE IF Abs(movement) > Frac(1, 100)
             THEN Text("conceded_pct",
                       <<RoundDiv(Abs(movement) * 1000,
                                  Max2(Abs(Val(last_opponent_offer)), Scale)),
                         Cents(price)>>)
             ELSE Text("balance", <<Cents(price)>>)

\* The arguments explain_offer is called with.
ExplainInputs ==
    [ agent_type          : {"buyer", "seller"},
      price               : {P(90), P(95), P(100)},
      last_opponent_offer : {None, Some(P(95)), Some(P(95) + Frac(1, 100)), Some(P(98))},
      target_price        : {P(100)},
      aggressiveness      : {Frac(2, 10), Frac(3, 10), Frac(5, 10), Frac(7, 10), Frac(8, 10)},
      fairness            : {Frac(4, 10), Frac(5, 10), Frac(65, 100), Frac(8, 10), Frac(9, 10)},
      market_price        : {None, Some(0), Some(P(92)), Some(P(99))},
      tom_insights        : {NoInsights, "None", "moderate", "stubborn", "cooperative"} ]

\* The call to make: heap holds its arguments.
InitExplain ==
    /\ heap \in {<<in>> : in \in ExplainInputs}
    /\ trace = <<>>
    /\ NoLoops

\* explain_offer(...) called with the arguments heap[1]; the trace keeps the
\* call and the text it returned.
CallExplainOffer ==
    /\ trace = <<>>
    /\ trace' = << [ op |-> "explain_offer", arg |-> heap[1],
                     value |-> ExplainOffer(heap[1].agent_type, heap[1].price,
                                            heap[1].last_opponent_offer,
                                            heap[1].target_price,
                                            heap[1].aggressiveness, heap[1].fairness,
                                            heap[1].market_price,
                                            heap[1].tom_insights) ] >>
    /\ UNCHANGED <<heap, loopVars, db>>

NextExplain == CallExplainOffer

SpecExplain == InitExplain /\ [][NextExplain]_vars

-----------------------------------------------------------------------------
(* run_negotiation_loop on two BaseAgents that share one price range         *)

\* The targets of the two parties, inside the shared range [50, 100]; its
\* ends are among them.
SharedRangeTargets == {50, 60, 85, 100}

\* aggressiveness in tenths: the ends and the middle of [0, 1].
SharedRangeAggressiveness == {0, 5, 10}

\* Every pair of targets is tried, the buyer's above the seller's too.
InitSharedRange ==
    /\ mode = "single"
    /\ \E tb \in SharedRangeTargets, ts \in SharedRangeTargets,
          ab \in SharedRangeAggressiveness, as \in SharedRangeAggressiveness,
          m \in 1..MaxRounds :
           /\ heap = CallerObjects("base", Party(tb, 50, 100, 1, 5, ab, None),
                                   Party(ts, 50, 100, 1, 5, as, None))
           /\ args = [s \in Inv |-> IF s = 1 THEN LoopArgs(1, 2, m, "base") ELSE None]
    /\ LoopIdle

SpecSharedRange == InitSharedRange /\ [][NextLoop]_vars

-----------------------------------------------------------------------------
(* run_negotiation_loop called twice on parties that differ only in what    *)
(* the TheoryOfMindAgents are not given: aggressiveness and market_price     *)
(* (concession_rate, the third such field, is stored by BaseAgent and read   *)
(* by no strategy, so a party here has no such field).                       *)

\* <<aggressiveness in tenths, market_price>> of the parties of the second
\* call.
OtherSettings == {<<0, None>>, <<5, Some(P(90))>>, <<10, Some(P(70))>>}

\* The party a with the setting v.
WithSetting(a, v) ==
    [a EXCEPT !.aggressiveness = Frac(v[1], 10), !.market_price = v[2]]

\* The parties of the first call.
TomInputBuyers ==
    {Party(85, 50, 100, 60, 5, 5, None), Party(60, 50, 100, 2, 7, 10, Some(P(70)))}

TomInputSellers ==
    {Party(95, 50, 100, 60, 5, 5, None), Party(100, 80, 120, 1, 5, 10, Some(P(90)))}

\* Invocation 1 runs on the agents 1 and 2, invocation 2 after it on the
\* agents 3 and 4, with the same max_rounds and use_tom.
InitTomInputs ==
    /\ mode = "repeat"
    /\ \E b \in TomInputBuyers, sl \in TomInputSellers,
          vb \in OtherSettings, vs \in OtherSettings,
          m \in 1..MaxRounds, v \in {"base", "use_tom"} :
           /\ heap = CallerObjects(v, b, sl)
                     \o CallerObjects(v, WithSetting(b, vb), WithSetting(sl, vs))
           /\ args = [s \in Inv |-> IF s = 1 THEN LoopArgs(1, 2, m, v)
                                    ELSE LoopArgs(3, 4, m, v)]
    /\ LoopIdle

SpecTomInputs == InitTomInputs /\ [][NextLoop]_vars

-----------------------------------------------------------------------------
(* Properties *)

\* Whether a timeline record satisfies the stop condition as documented:
\* |buyer_offer - seller_offer| <= 1.0 or simple fairness >= 0.9.
Triggers(rec) ==
    \/ Abs(rec.buyer_offer - rec.seller_offer) <= Scale
    \/ 10 * rec.fairness >= 9 * Scale

\* The parties of invocation s.
BuyerOf(s) == heap[args[s].buyer_agent].cfg

SellerOf(s) == heap[args[s].seller_agent].cfg

\* Whether invocation 1 was given a configuration the design calls invalid.
InvalidConfiguration ==
    \/ ~ValidParty(BuyerOf(1))
    \/ ~ValidParty(SellerOf(1))
    \/ args[1].max_rounds <= 0

\* The part of a timeline the negotiation itself consists of: per round the
\* two offers, the two utilities and the fairness.
Offers(tl) ==
    [i \in 1..Len(tl) |->
        <<tl[i].round, tl[i].buyer_offer, tl[i].seller_offer, tl[i].buyer_util,
          tl[i].seller_util, tl[i].fairness>>]

\* C1: every price returned by propose lies in [min_price, max_price] of
\* the proposing party, for the base, the opponent-modeling and the
\* multi-module strategy, for the opening call and for any opponent offer,
\* after any sequence of earlier propose calls.
C1_ProposeWithinRange ==
    \A i \in 1..Len(trace) :
        trace[i].op = "propose" =>
            /\ heap[1].cfg.min_price <= trace[i].value
            /\ trace[i].value <= heap[1].cfg.max_price

\* C2: the loop tests the stop condition after every round and ends at the
\* first round whose record satisfies it: no record before the last one
\* satisfies it, a record that satisfies it is the last one and the loop
\* has returned, and a loop that returned without a satisfying record has
\* exactly max_rounds records.
C2_StopsAtFirstTrigger ==
    LET tl == timeline[1]
        n  == Len(tl)
    IN  /\ \A i \in 1..(n - 1) : ~Triggers(tl[i])
        /\ (n >= 1 /\ Triggers(tl[n])) => pc[1] = "done"
        /\ (pc[1] = "done" /\ (n = 0 \/ ~Triggers(tl[n]))) => n = args[1].max_rounds
        /\ pc[1] = "done" => n >= 1

\* C2 witness: the loop returned in a round after the first and before
\* max_rounds because that round's record satisfies the stop condition.
C2_Witness ==
    /\ pc[1] = "done"
    /\ Len(timeline[1]) >= 2
    /\ Len(timeline[1]) < args[1].max_rounds
    /\ Triggers(Last(timeline[1]))

\* C3: when the stop condition triggers in round r, the agreement's price is
\* the mean of round r's two offers, and the agreement's fairness (and the
\* utilities it carries) are those of the two parties at that final price,
\* up to rounding.  Stated for valid configurations.
C3_StopAgreementRecomputed ==
    (~InvalidConfiguration /\ pc[1] = "done" /\ Triggers(Last(timeline[1]))) =>
        LET rec == Last(timeline[1])
            ag  == Val(result[1])
            fbu == Utility(BuyerOf(1), ag.price)
            fsu == Utility(SellerOf(1), ag.price)
        IN  /\ ag.price = RoundDiv(rec.buyer_offer + rec.seller_offer, 2)
            /\ Close(ag.fairness, Scale - Abs(fbu - fsu))
            /\ "buyer_utility" \in DOMAIN ag => ag.buyer_utility = fbu
            /\ "seller_utility" \in DOMAIN ag => ag.seller_utility = fsu

\* C4: when max_rounds rounds pass without the stop condition triggering,
\* the agreement's price is the mean of the last round's two offers and the
\* agreement's fairness is the fairness recorded for that last round, up to
\* rounding.  Stated for valid configurations.
C4_ExhaustedAgreementFromLastRound ==
    (~InvalidConfiguration /\ pc[1] = "done" /\ ~Triggers(Last(timeline[1]))) =>
        LET rec == Last(timeline[1])
            ag  == Val(result[1])
        IN  /\ ag.price = RoundDiv(rec.buyer_offer + rec.seller_offer, 2)
            /\ Close(ag.fairness, rec.fairness)

\* C5: two invocations with identical buyer, seller, max_rounds and variant,
\* the second given the same strategy objects as the first, return identical
\* timelines and agreements.  Stated for valid configurations and for the
\* offers, utilities and fairness of the timeline (the belief snapshots left
\* aside).
C5_RepeatedRunsAgree ==
    (~InvalidConfiguration /\ pc[1] = "done" /\ pc[2] = "done") =>
        /\ Offers(timeline[2]) = Offers(timeline[1])
        /\ result[2] = result[1]

\* The end-to-end example: base strategies, buyer target 85, seller target
\* 95, both ranges [50, 100], no market price, aggressiveness 0.5,
\* max_rounds 8.
IsExample ==
    /\ args[1].variant = "base"
    /\ args[1].max_rounds = DefaultMaxRounds
    /\ BuyerOf(1) = Party(85, 50, 100, 60, 5, 5, None)
    /\ SellerOf(1) = Party(95, 50, 100, 60, 5, 5, None)

\* C6: on the end-to-end example the loop raises no error, never runs more
\* than 8 rounds, can always take its next step until it has returned, and
\* the agreement's price lies in [85, 95].
C6_ExampleEndsInRange ==
    IsExample =>
        /\ pc[1] # "error"
        /\ Len(timeline[1]) <= 8
        /\ pc[1] \in {"buyer", "seller", "record"} => frame[1].r <= 8
        /\ pc[1] # "done" => ENABLED NextLoop
        /\ pc[1] = "done" =>
               /\ P(85) <= Val(result[1]).price
               /\ Val(result[1]).price <= P(95)

\* C6 witness: the example has returned an agreement.
C6_Witness == IsExample /\ pc[1] = "done" /\ ~IsNone(result[1])

\* C7: for a party with min <= target <= max and a price p of [min, max],
\* 0 <= utility(p) <= 1, and utility(target) = 1; the empty range
\* max = min included.
C7_UtilityBounds ==
    \A i \in 1..Len(trace) :
        trace[i].op = "utility" =>
            /\ 0 <= trace[i].value
            /\ trace[i].value <= Scale
            /\ Val(trace[i].arg) = heap[1].cfg.target_price => trace[i].value = Scale

\* C7 witness: utility was taken on a party whose range is empty.
C7_Witness ==
    /\ trace # <<>>
    /\ trace[1].op = "utility"
    /\ heap[1].cfg.max_price = heap[1].cfg.min_price

\* C8: in every round the buyer proposes before the seller; the buyer is
\* given the seller's offer of the round before (None in round 1), the
\* seller the buyer's offer of the same round; the records carry these
\* offers and the round numbers 1, 2, 3, ...
C8_RoundOrder ==
    LET c  == calls[1]
        tl == timeline[1]
    IN  /\ \A i \in 1..Len(c) :
               /\ c[i].who = (IF i % 2 = 1 THEN "buyer" ELSE "seller")
               /\ c[i].round = (i + 1) \div 2
               /\ c[i].arg = (IF i = 1 THEN None ELSE Some(c[i - 1].price))
        /\ Len(tl) <= Len(c) \div 2
        /\ \A k \in 1..Len(tl) :
               /\ tl[k].round = k
               /\ tl[k].buyer_offer = c[2 * k - 1].price
               /\ tl[k].seller_offer = c[2 * k].price

\* C8 witness: three rounds are on the timeline.
C8_Witness == Len(timeline[1]) >= 3 /\ Len(calls[1]) >= 6

\* C9: an invalid configuration (min > max, target outside [min, max],
\* quantity <= 0, max_rounds <= 0) is rejected before any round executes:
\* no record is appended to the timeline, no agreement is returned.
C9_InvalidConfigurationRejected ==
    InvalidConfiguration =>
        /\ timeline[1] = <<>>
        /\ IsNone(result[1])
        /\ pc[1] # "done"

\* Whether s is a prefix of t.
IsPrefix(s, t) == Len(s) <= Len(t) /\ s = SubSeq(t, 1, Len(s))

\* C10: with the rounds of two sessions interleaved in any order, each
\* session's timeline grows along, and ends as, the timeline the session
\* produces alone, and its agreement is the agreement it returns alone.
C10_SessionsIndependent ==
    \A s \in Inv :
        LET a == args[s]
            alone == RunAlone(heap[a.buyer_agent], heap[a.seller_agent],
                              a.max_rounds, a.variant)
        IN  /\ IsPrefix(timeline[s], alone.timeline)
            /\ pc[s] \in {"done", "error"} =>
                   /\ pc[s] = alone.pc
                   /\ timeline[s] = alone.timeline
                   /\ result[s] = alone.result

\* C10 witness: both sessions use opponent modeling and are in the middle
\* of their second round at the same time.
C10_Witness ==
    /\ args[1].variant = "use_tom" /\ args[2].variant = "use_tom"
    /\ pc[1] = "seller" /\ frame[1].r = 2
    /\ pc[2] = "record" /\ frame[2].r = 2
    /\ args[1] # args[2]

\* C11: the simple fairness of two equal utilities is 1 for any utility, and
\* proportional fairness is symmetric: a call with (u1, u2) and a call with
\* (u2, u1) return the same value, also for utilities at or below the floor
\* epsilon.
C11_FairnessSymmetry ==
    /\ \A i \in 1..Len(trace) :
           (trace[i].op = "simple_fairness" /\ trace[i].arg[1] = trace[i].arg[2]) =>
               trace[i].value = Scale
    /\ \A i, j \in 1..Len(trace) :
           ( /\ trace[i].op = "proportional_fairness"
             /\ trace[j].op = "proportional_fairness"
             /\ trace[i].arg = <<trace[j].arg[2], trace[j].arg[1]>> ) =>
               trace[i].value = trace[j].value

\* C11 witness: proportional fairness was called with (u1, u2) and then with
\* (u2, u1), u1 below the floor and u2 above it.
C11_Witness ==
    /\ Len(trace) = 2
    /\ trace[1].op = "proportional_fairness" /\ trace[2].op = "proportional_fairness"
    /\ trace[1].arg[1] <= 0 /\ trace[1].arg[2] > 1
    /\ trace[2].arg = <<trace[1].arg[2], trace[1].arg[1]>>

\* The indices of the candidate prices of optimize_offer.
CandidateIndices == 0..(NumCandidates - 1)

\* C12: optimize_offer returns one of the 20 evenly spaced candidate prices
\* of [min_price, max_price], its objective is maximal among the 20
\* candidates, and every candidate with a lower price has a strictly lower
\* objective (of several maximal candidates the lowest-priced is returned).
C12_OptimizeReturnsFirstBest ==
    \A n \in 1..Len(trace) :
        trace[n].op = "optimize_offer" =>
            LET a == heap[1].cfg
                e == trace[n]
                obj(price) == Score(a, e.opponent_target, price, e.risk_score,
                                    e.stubbornness)
                best == obj(e.value)
            IN  /\ \E i \in CandidateIndices : e.value = Candidate(a, i)
                /\ \A j \in CandidateIndices :
                       /\ obj(Candidate(a, j)) <= best
                       /\ Candidate(a, j) < e.value => obj(Candidate(a, j)) < best

\* C12 witness: optimize_offer returned a price although another, higher
\* candidate has the same objective.
C12_Witness ==
    \E n \in 1..Len(trace) :
        /\ trace[n].op = "optimize_offer"
        /\ \E j \in CandidateIndices :
               /\ Candidate(heap[1].cfg, j) > trace[n].value
               /\ Score(heap[1].cfg, trace[n].opponent_target, Candidate(heap[1].cfg, j),
                        trace[n].risk_score, trace[n].stubbornness)
                  = Score(heap[1].cfg, trace[n].opponent_target, trace[n].value,
                          trace[n].risk_score, trace[n].stubbornness)

\* The percentage changes between consecutive offers of a history, in
\* hundredths of a percent, over the steps that start at a positive offer:
\* their number and their sum (the mean m is sum / number).
StepCount(h) == Cardinality({i \in 1..(Len(h) - 1) : h[i] > 0})

StepSum(h) ==
    SumSeq([i \in 1..(Len(h) - 1) |->
               IF h[i] > 0 THEN RoundDiv(Abs(h[i + 1] - h[i]) * 10000, h[i]) ELSE 0])

Moderate == [cluster |-> "moderate", cluster_score |-> Frac(5, 10)]

Stubborn == [cluster |-> "stubborn", cluster_score |-> Frac(9, 10)]

Cooperative == [cluster |-> "cooperative", cluster_score |-> Frac(1, 10)]

\* C13: for a history of fewer than 2 offers cluster_behavior
\* returns moderate 0.5; otherwise, with m the mean percentage change, it
\* returns stubborn 0.9 when m < 2, moderate 0.5 when 2 <= m <= 7 and
\* cooperative 0.1 when m > 7.  (Stated for histories of positive offers.)
C13_ClusterBands ==
    \A n \in 1..Len(trace) :
        (trace[n].op = "cluster_behavior"
         /\ \A i \in 1..Len(trace[n].arg) : trace[n].arg[i] > 0) =>
            LET h == trace[n].arg
                cnt == StepCount(h)
                total == StepSum(h)
            IN  trace[n].value =
                    IF Len(h) < 2 THEN Moderate
                    ELSE IF total < 200 * cnt THEN Stubborn
                    ELSE IF total <= 700 * cnt THEN Moderate
                    ELSE Cooperative

\* The estimate the claim describes for a non-empty sequence of observed
\* offers: the first offer, then 0.7 * old + 0.3 * x for every later offer x.
RECURSIVE MovingAverage(_)
MovingAverage(h) ==
    IF Len(h) = 1 THEN h[1]
    ELSE RoundDiv(7 * MovingAverage(SubSeq(h, 1, Len(h) - 1)) + 3 * Last(h), 10)

\* C14: update_beliefs sets belief_target_price to the first observed offer
\* and on every later offer x to 0.7 * old + 0.3 * x; after any non-empty
\* sequence of observations the estimate lies between the smallest and the
\* largest observed offer, and after 95, 93, 91 strictly between 90 and 96.
C14_BeliefMovingAverage ==
    LET oh == heap[1].uni.opponent_offer_history
        b  == heap[1].uni.belief_target_price
    IN  oh # <<>> =>
            /\ b = Some(MovingAverage(oh))
            /\ \E i \in 1..Len(oh) : oh[i] <= Val(b)
            /\ \E i \in 1..Len(oh) : Val(b) <= oh[i]
            /\ oh = <<P(95), P(93), P(91)>> => (P(90) < Val(b) /\ Val(b) < P(96))
            /\ \E n \in 1..Len(trace) :
                   /\ trace[n].op = "update_beliefs"
                   /\ trace[n].value = b
                   /\ \A k \in (n + 1)..Len(trace) : trace[k].op # "update_beliefs"

\* C14 witness: the offers 95, 93, 91 were observed in this order.
C14_Witness ==
    heap[1].uni.opponent_offer_history = <<P(95), P(93), P(91)>>

\* C15: predict_acceptance(offer, target) returns reject with probability
\* 0.2 when offer < 0.95 * target, likely_accept with probability 0.8 when
\* 0.95 * target <= offer <= 1.05 * target, and overpay_accept with
\* probability 0.95 when offer > 1.05 * target.
C15_AcceptanceBands ==
    \A n \in 1..Len(trace) :
        trace[n].op = "predict_acceptance" =>
            LET offer  == trace[n].arg[1]
                target == trace[n].arg[2]
                v == trace[n].value
            IN  /\ 100 * offer < 95 * target =>
                       (v.prediction = "reject" /\ v.acceptance_probability = Frac(2, 10))
                /\ (95 * target <= 100 * offer /\ 100 * offer <= 105 * target) =>
                       ( /\ v.prediction = "likely_accept"
                         /\ v.acceptance_probability = Frac(8, 10) )
                /\ 100 * offer > 105 * target =>
                       ( /\ v.prediction = "overpay_accept"
                         /\ v.acceptance_probability = Frac(95, 100) )

\* C15 witness: predict_acceptance was called with an offer at the upper end
\* of the fair band of a positive target.
C15_Witness ==
    /\ trace # <<>>
    /\ trace[1].op = "predict_acceptance"
    /\ trace[1].arg[2] > 0
    /\ 100 * trace[1].arg[1] = 105 * trace[1].arg[2]

\* C16: a session's status moves only along open -> finalized -> recorded:
\* a new session is open, and in every step an existing session keeps its
\* status, or goes from open to finalized by a finalize call, or from
\* finalized to recorded by a record-blockchain call; it never moves
\* backwards.
C16_StatusMovesForward ==
    [][ \A id \in 1..Len(db'.sessions) :
            IF id > Len(db.sessions)
            THEN db'.sessions[id].status = "open"
            ELSE LET old == db.sessions[id].status
                     new == db'.sessions[id].status
                 IN  \/ new = old
                     \/ /\ old = "open" /\ new = "finalized"
                        /\ Last(trace').op = "finalize_agreement"
                     \/ /\ old = "finalized" /\ new = "recorded"
                        /\ Last(trace').op = "record_blockchain" ]_vars

\* C17: an Agreement is created once per session and is terminal: in every
\* step the Agreement rows that exist stay as they are, and afterwards no
\* two Agreement rows belong to one session.
C17_OneAgreementPerSession ==
    [][ /\ \A i \in 1..Len(db.agreements) :
               /\ i <= Len(db'.agreements)
               /\ db'.agreements[i] = db.agreements[i]
        /\ \A i, j \in 1..Len(db'.agreements) :
               db'.agreements[i].session_id = db'.agreements[j].session_id => i = j ]_vars

\* C18: optimize_offer measures fairness against the belief target estimate
\* whenever one is present, and against own target reflected across the
\* midpoint of [min_price, max_price] only when none is present, whether or
\* not an opponent offer is passed to the call.
C18_BeliefTargetWhenPresent ==
    \A i \in 1..Len(trace) :
        trace[i].op = "optimize_offer" =>
            trace[i].opponent_target =
                IF ~IsNone(trace[i].belief)
                THEN Val(trace[i].belief)
                ELSE heap[1].cfg.min_price + heap[1].cfg.max_price
                     - heap[1].cfg.target_price

\* C19: for the opponent-modeling strategy, belief_confidence is below 0.3
\* exactly while fewer than 3 opponent offers have been observed; a call
\* propose(x) made while it is below 0.3 returns
\* target_price + 0.5 * (x - target_price), whatever strategy_type and
\* patience_level are, and records no offer of its own; from the third
\* observed offer on the call returns the belief-informed price and records
\* it as its own last offer.
C19_FallbackBelowThreeOffers ==
    [][ (heap[1].kind = "tom" /\ ~IsNone(Last(trace').arg)) =>
            LET a == heap[1].cfg
                x == Val(Last(trace').arg)
                before == heap[1].tom
                after == heap'[1].tom
                n == Len(after.opponent_offer_history)
                recorded == Len(before.my_offer_history)
                            + (IF before.my_offer_history = <<>> THEN 0 ELSE 1)
            IN  /\ n = Len(before.opponent_offer_history) + 1
                /\ (after.belief_confidence < Frac(3, 10)) <=> (n < 3)
                /\ n < 3 =>
                       /\ Last(trace').value = a.target_price + RoundDiv(x - a.target_price, 2)
                       /\ Len(after.my_offer_history) = recorded
                /\ n >= 3 =>
                       /\ Last(trace').value = TomInformed(a, after, x)
                       /\ Len(after.my_offer_history) = recorded + 1
                       /\ Last(after.my_offer_history) = Last(trace').value ]_vars

\* Three opponent offers have been observed by three calls: the first two
\* took the fallback (the second with the strategy already classified), the
\* third returned a belief-informed price that differs from the fallback's.
C19_Witness ==
    /\ heap[1].kind = "tom"
    /\ Len(trace) = 3
    /\ \A i \in 1..3 : ~IsNone(trace[i].arg)
    /\ Len(heap[1].tom.opponent_offer_history) = 3
    /\ heap[1].tom.strategy_type = "cooperative"
    /\ heap[1].tom.patience_level # Frac(1, 2)
    /\ trace[2].value = heap[1].cfg.target_price
                        + RoundDiv(Val(trace[2].arg) - heap[1].cfg.target_price, 2)
    /\ trace[3].value # heap[1].cfg.target_price
                        + RoundDiv(Val(trace[3].arg) - heap[1].cfg.target_price, 2)

\* C20: for the opponent-modeling strategy every call of propose appends the
\* price it returns to its own offer history exactly once and nothing else
\* changes that history: after k calls it holds the k returned prices in call
\* order, the opening offer and the fallback offers included.
C20_OwnHistoryIsReturnedPrices ==
    heap[1].kind = "tom" =>
        heap[1].tom.my_offer_history = [i \in 1..Len(trace) |-> trace[i].value]

\* C21: in the opponent-modeling strategy, from the third observed opponent
\* offer on, the stored belief_confidence and the weight put on the newly
\* fitted target estimate are both min(1, n/10) for n observed offers, and
\* the first fitted estimate is stored as it is.
C21_ConfidenceFollowsObservedCount ==
    \A i \in 1..Len(trace) :
        trace[i].op = "update_opponent_model" =>
            LET before == trace[i].before
                after == trace[i].value
                n == Len(after.opponent_offer_history)
                weight == Min2(Scale, Frac(n, 10))
                fitted == FitIntercept(LastFive(after.opponent_offer_history))
            IN  n >= 3 =>
                    /\ after.belief_confidence = weight
                    /\ after.target_price_estimate =
                           IF IsNone(before.target_price_estimate)
                           THEN Some(fitted)
                           ELSE Some(Mul(weight, fitted)
                                     + Mul(Scale - weight,
                                           Val(before.target_price_estimate)))

\* The patience an update leaves, for the trace entry e of a belief update.
PatienceBefore(e) ==
    IF e.op = "update_opponent_model" THEN e.before.patience_level
    ELSE e.before.belief_patience

PatienceAfter(e) ==
    IF e.op = "update_opponent_model" THEN e.value.patience_level
    ELSE e.value.belief_patience

\* movement = |first offer - latest offer| of the history after the update.
Movement(e) ==
    Abs(e.value.opponent_offer_history[1]
        - e.value.opponent_offer_history[Len(e.value.opponent_offer_history)])

\* round_count * (max_price - min_price): the baseline is 0.05 of it in the
\* opponent-modeling strategy.
RoundsTimesRange(e) ==
    e.value.round_count * (heap[1].cfg.max_price - heap[1].cfg.min_price)

\* C22 as stated: in both modeling strategies an update with at least 2
\* observed offers sets patience to 0.8 when movement < 0.5 * baseline, to
\* 0.2 when movement > 1.5 * baseline, and keeps it otherwise, with
\* baseline = round_count * 0.05 * (max_price - min_price).
C22_PatienceSharedBaseline ==
    \A i \in 1..Len(trace) :
        Len(trace[i].value.opponent_offer_history) >= 2 =>
            PatienceAfter(trace[i]) =
                IF 40 * Movement(trace[i]) < RoundsTimesRange(trace[i])
                THEN Frac(8, 10)
                ELSE IF 40 * Movement(trace[i]) > 3 * RoundsTimesRange(trace[i])
                THEN Frac(2, 10)
                ELSE PatienceBefore(trace[i])

\* C22 amended: the opponent-modeling strategy is as stated; the
\* multi-module strategy takes baseline = round_count * 0.1 *
\* (max_price - min_price) and sets patience to 0.8 when movement < baseline,
\* to 0.2 when movement > 2 * baseline and to 0.5 otherwise.  With fewer
\* than 2 observed offers both keep the patience they had.
C22_PatienceByStrategy ==
    \A i \in 1..Len(trace) :
        PatienceAfter(trace[i]) =
            IF Len(trace[i].value.opponent_offer_history) < 2
            THEN PatienceBefore(trace[i])
            ELSE IF trace[i].op = "update_opponent_model"
            THEN IF 40 * Movement(trace[i]) < RoundsTimesRange(trace[i])
                 THEN Frac(8, 10)
                 ELSE IF 40 * Movement(trace[i]) > 3 * RoundsTimesRange(trace[i])
                 THEN Frac(2, 10)
                 ELSE PatienceBefore(trace[i])
            ELSE IF 10 * Movement(trace[i]) < RoundsTimesRange(trace[i])
                 THEN Frac(8, 10)
                 ELSE IF 10 * Movement(trace[i]) > 2 * RoundsTimesRange(trace[i])
                 THEN Frac(2, 10)
                 ELSE Frac(5, 10)

\* C22 witness: a multi-module agent whose patience was 0.8 or 0.2 observed
\* an offer with a movement between its baseline and twice its baseline and
\* went to patience 0.5, and an opponent-modeling agent would have kept its
\* patience there.
C22_Witness ==
    \E i \in 1..Len(trace) :
        /\ trace[i].op = "update_beliefs"
        /\ Len(trace[i].value.opponent_offer_history) >= 2
        /\ PatienceBefore(trace[i]) # Frac(5, 10)
        /\ 10 * Movement(trace[i]) >= RoundsTimesRange(trace[i])
        /\ 10 * Movement(trace[i]) <= 2 * RoundsTimesRange(trace[i])
        /\ PatienceAfter(trace[i]) = Frac(5, 10)
        /\ heap[1].cfg.max_price > heap[1].cfg.min_price

\* The indices of the calls of the trace made with an opponent offer.
OfferCalls(tr) == {i \in 1..Len(tr) : ~IsNone(tr[i].arg)}

\* C23: for the multi-module strategy, after every propose call round_count
\* equals the length of opponent_offer_history equals the number of calls
\* made with an opponent offer, my_offer_history holds the returned price of
\* every call in call order, and a call without an opponent offer leaves the
\* beliefs and opponent_offer_history as they were.
C23_UnifiedProposeFrame ==
    [][ heap[1].kind = "unified" =>
            LET before == heap[1].uni
                after == heap'[1].uni
            IN  /\ after.round_count = Len(after.opponent_offer_history)
                /\ after.round_count = Cardinality(OfferCalls(trace'))
                /\ after.my_offer_history = [i \in 1..Len(trace') |-> trace'[i].value]
                /\ IsNone(Last(trace').arg) =>
                       /\ after.opponent_offer_history = before.opponent_offer_history
                       /\ after.belief_target_price = before.belief_target_price
                       /\ after.belief_stubbornness = before.belief_stubbornness
                       /\ after.belief_patience = before.belief_patience
                /\ ~IsNone(Last(trace').arg) =>
                       after.opponent_offer_history
                           = Append(before.opponent_offer_history, Val(Last(trace').arg)) ]_vars

\* C23 witness: a multi-module agent was called with an offer, then without
\* one (its beliefs being set by then), then with an offer again.
C23_Witness ==
    /\ heap[1].kind = "unified"
    /\ Len(trace) = 4
    /\ ~IsNone(trace[1].arg) /\ IsNone(trace[2].arg) /\ ~IsNone(trace[3].arg)
    /\ IsNone(trace[4].arg)
    /\ heap[1].uni.round_count = 2
    /\ ~IsNone(heap[1].uni.belief_target_price)
    /\ Len(heap[1].uni.my_offer_history) = 4

\* C25: for the multi-module strategy a propose call that receives a new
\* opponent offer returns a price different from the previous call's: on the
\* agent with target 100 and range [80, 120] the calls propose(None),
\* propose(95), propose(93) return p1, p2, p3 with p2 # p1 and p3 # p2.
C25_OfferChangesPrice ==
    ( /\ heap[1].kind = "unified"
      /\ heap[1].cfg = Party(100, 80, 120, 1, 5, 5, None)
      /\ Len(trace) = 3
      /\ trace[1].arg = None /\ trace[2].arg = Some(P(95)) /\ trace[3].arg = Some(P(93)) )
    => (trace[2].value # trace[1].value /\ trace[3].value # trace[2].value)

\* The rule a phrasing of explain_offer belongs to: 1 opening offer,
\* 2 opponent classification, 3 aggressiveness, 4 fairness, 5 market,
\* 6 percentage concession; 7 is the phrasing outside these six rules.
RuleOf(phrase) ==
    IF phrase \in {"opening_market", "opening_target"} THEN 1
    ELSE IF phrase \in {"stubborn", "cooperative"} THEN 2
    ELSE IF phrase \in {"aggressive_down", "aggressive_up", "generous"} THEN 3
    ELSE IF phrase \in {"fairness_low", "fairness_high"} THEN 4
    ELSE IF phrase \in {"below_market", "above_market"} THEN 5
    ELSE IF phrase = "conceded_pct" THEN 6
    ELSE 7

\* Whether rule k (1 .. 5) matches the arguments in.
RuleMatches(k, in) ==
    IF k = 1 THEN IsNone(in.last_opponent_offer)
    ELSE IF k = 2 THEN in.tom_insights \in {"stubborn", "cooperative"}
    ELSE IF k = 3 THEN in.aggressiveness > Frac(7, 10) \/ in.aggressiveness < Frac(3, 10)
    ELSE IF k = 4 THEN in.fairness < Frac(5, 10) \/ in.fairness > Frac(8, 10)
    ELSE /\ Truthy(in.market_price)
         /\ \/ in.agent_type = "buyer" /\ in.price < Val(in.market_price)
            \/ in.agent_type = "seller" /\ in.price > Val(in.market_price)

\* The first of the rules 1 .. 5 that matches, or 6 when none does.
FirstRule(in) ==
    IF \E k \in 1..5 : RuleMatches(k, in)
    THEN CHOOSE k \in 1..5 :
             RuleMatches(k, in) /\ \A j \in 1..(k - 1) : ~RuleMatches(j, in)
    ELSE 6

\* C24 as stated: explain_offer returns the phrasing of the first matching
\* rule of (1) opening offer, (2) opponent classified stubborn or
\* cooperative, (3) aggressiveness > 0.7 or < 0.3, (4) fairness < 0.5 or
\* > 0.8, (5) market price known and beaten by the offer, (6) the
\* percentage-concession fallback.
C24_FirstOfSixRules ==
    \A i \in 1..Len(trace) :
        RuleOf(trace[i].value.phrase) = FirstRule(trace[i].arg)

\* C24 amended: rules (1) to (5) as stated, in that order; when none of
\* them matches, the text is the percentage-concession phrasing if the
\* offer differs from the opponent's by more than 0.01 and the
\* "balance my target and opponent's position" phrasing otherwise.
C24_FirstMatchingRule ==
    \A i \in 1..Len(trace) :
        LET in == trace[i].arg
            rule == RuleOf(trace[i].value.phrase)
        IN  IF FirstRule(in) <= 5
            THEN rule = FirstRule(in)
            ELSE IF Abs(in.price - Val(in.last_opponent_offer)) > Frac(1, 100)
            THEN rule = 6
            ELSE rule = 7

\* C24 witness: aggressiveness and fairness both match and the
\* aggressiveness phrasing was returned.
C24_Witness ==
    /\ Len(trace) = 1
    /\ ~RuleMatches(1, trace[1].arg) /\ ~RuleMatches(2, trace[1].arg)
    /\ RuleMatches(3, trace[1].arg) /\ RuleMatches(4, trace[1].arg)
    /\ RuleMatches(5, trace[1].arg)
    /\ RuleOf(trace[1].value.phrase) = 3


\* C26: finalize and record-blockchain report their own error outcomes and
\* leave the state unchanged: a request for an unknown session id is
\* answered 404 'Session not found', finalize on a session with no stored
\* offers is answered 400 'No offers found', and in these cases no Agreement
\* is created and no session status changes.
C26_ErrorOutcomesReported ==
    [][ Len(trace') = Len(trace) + 1 =>
        LET e == Last(trace')
            known(id) == id \in 1..Len(db.sessions)
        IN  /\ (e.op = "finalize_agreement" /\ ~known(e.arg)) =>
                   (e.value = Response(404, "Session not found") /\ db' = db)
            /\ (e.op = "finalize_agreement" /\ known(e.arg)
                   /\ LatestOffers(db.offers, e.arg) = {}) =>
                   (e.value = Response(400, "No offers found") /\ db' = db)
            /\ (e.op = "record_blockchain" /\ e.arg[2] # "" /\ ~known(e.arg[1])) =>
                   (e.value = Response(404, "Session not found") /\ db' = db)
      ]_vars


\* The successful auto-negotiation requests for session id among the first
\* n requests.
AutoRuns(id, n) ==
    {i \in 1..n : /\ trace[i].op = "run_auto"
                  /\ trace[i].arg = id
                  /\ trace[i].value.status = 200}

\* C27: for a session on which auto-negotiation ran once, the Agreement
\* stored by finalize carries the same price, fairness, proportional
\* fairness, buyer utility and seller utility as the agreement the
\* negotiation loop returned for that session.
C27_FinalizeCarriesLoopAgreement ==
    \A j \in 1..Len(trace) :
        (/\ trace[j].op = "finalize_agreement"
         /\ trace[j].value.status = 200
         /\ Cardinality(AutoRuns(trace[j].arg, j - 1)) = 1) =>
            LET ag == trace[CHOOSE i \in AutoRuns(trace[j].arg, j - 1) : TRUE].value.body.agreement
                row == trace[j].value.body
            IN  /\ row.price = ag.price
                /\ row.final_fairness = Some(ag.fairness)
                /\ row.final_proportional_fairness =
                       Some(CalculateProportionalFairness(ag.buyer_utility, ag.seller_utility))
                /\ row.buyer_utility = Some(ag.buyer_utility)
                /\ row.seller_utility = Some(ag.seller_utility)


\* x lies between a and b, whichever of the two is the larger.
Between(x, a, b) == Min2(a, b) <= x /\ x <= Max2(a, b)

\* The parties of a run that C28 speaks about: BaseAgents with
\* min <= target <= max that share one range, aggressiveness in [0, 1], no
\* market price, and the buyer's target at or below the seller's.
SharedRangeParties(b, s) ==
    /\ b.min_price = s.min_price /\ b.max_price = s.max_price
    /\ b.min_price <= b.target_price /\ b.target_price <= b.max_price
    /\ s.min_price <= s.target_price /\ s.target_price <= s.max_price
    /\ 0 <= b.aggressiveness /\ b.aggressiveness <= Scale
    /\ 0 <= s.aggressiveness /\ s.aggressiveness <= Scale
    /\ IsNone(b.market_price) /\ IsNone(s.market_price)
    /\ b.target_price <= s.target_price

SameOptimizeInputs(i, j) ==
    /\ trace[i].op = "optimize_offer" /\ trace[j].op = "optimize_offer"
    /\ trace[i].arg = trace[j].arg
    /\ trace[i].belief = trace[j].belief

\* C29: the price optimize_offer selects does not depend on risk_score or
\* stubbornness: two calls on one agent with the same beliefs and the same
\* opponent offer return the same best_price whatever the two arguments are.
C29_PriceIgnoresRiskAndStubbornness ==
    \A i \in 1..Len(trace) : \A j \in 1..Len(trace) :
        SameOptimizeInputs(i, j) => trace[i].value = trace[j].value

\* Two calls that differ only in risk_score and stubbornness were made after
\* a belief estimate was formed, and the price is not the agent's target.
C29_Witness ==
    \E i \in 1..Len(trace) : \E j \in 1..Len(trace) :
        /\ SameOptimizeInputs(i, j)
        /\ trace[i].risk_score # trace[j].risk_score
        /\ trace[i].stubbornness # trace[j].stubbornness
        /\ ~IsNone(trace[i].arg) /\ ~IsNone(trace[i].belief)
        /\ trace[i].value # heap[1].cfg.target_price


\* The buyer_offer and seller_offer of every round of a timeline.
OffersOf(tl) == [i \in 1..Len(tl) |-> <<tl[i].buyer_offer, tl[i].seller_offer>>]

\* The two calls were given parties that differ at most in aggressiveness
\* and market_price, and the same max_rounds.
DifferOnlyInSettings ==
    /\ Len(heap) >= 4
    /\ \A k \in {1, 2} :
           /\ heap[k].kind = "base" /\ heap[k + 2].kind = "base"
           /\ [heap[k].cfg EXCEPT !.aggressiveness = 0, !.market_price = None]
              = [heap[k + 2].cfg EXCEPT !.aggressiveness = 0, !.market_price = None]
    /\ args[1].max_rounds = args[2].max_rounds

\* C30: with use_tom enabled the offers do not depend on either party's
\* market_price, aggressiveness or concession_rate: two runs whose inputs
\* differ only in those fields produce the same buyer_offer and seller_offer
\* in every round and the same agreement price.
C30_TomOffersIgnoreSettings ==
    (/\ args[1].variant = "use_tom" /\ args[2].variant = "use_tom"
     /\ DifferOnlyInSettings
     /\ pc[1] \in {"done", "error"} /\ pc[2] \in {"done", "error"}) =>
        /\ OffersOf(timeline[1]) = OffersOf(timeline[2])
        /\ pc[1] = pc[2]
        /\ pc[1] = "done" => Val(result[1]).price = Val(result[2]).price

\* Two finished use_tom runs of more than one round whose buyers differ in
\* aggressiveness and whose sellers differ in market_price.
C30_Witness ==
    /\ args[1].variant = "use_tom" /\ args[2].variant = "use_tom"
    /\ DifferOnlyInSettings
    /\ pc[1] = "done" /\ pc[2] = "done"
    /\ Len(timeline[2]) >= 2
    /\ heap[1].cfg.aggressiveness # heap[3].cfg.aggressiveness
    /\ heap[2].cfg.market_price # heap[4].cfg.market_price

====
